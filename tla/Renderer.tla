------------------------------ MODULE Renderer ------------------------------
(***************************************************************************)
(* What every renderer promises main (the interfaces Renderer and Failer   *)
(* of internal/render/table.go): it is given samples one at a time, it may *)
(* show them at once or keep them until the summary, and when it is        *)
(* finished either it has shown all of them or it says that it failed, "so *)
(* that a truncated or undeliverable result is not reported as a success". *)
(***************************************************************************)
CONSTANT Sample

VARIABLES
  given,                \* the samples handed to the renderer
  shown,                \* the ones a reader of the output can see
  verdict               \* "open", "delivered" or "failed"

contractVars == <<given, shown, verdict>>

Init == given = {} /\ shown = {} /\ verdict = "open"

\* Sample(s), a new one each time; it and others may be shown, none is unshown.
Give ==
  /\ verdict = "open"
  /\ \E s \in Sample \ given : given' = given \cup {s}
  /\ shown \subseteq shown' /\ shown' \subseteq given'
  /\ UNCHANGED verdict

\* Summary: what was kept may be shown.
Show ==
  /\ verdict = "open"
  /\ shown \subseteq shown' /\ shown' \subseteq given
  /\ UNCHANGED <<given, verdict>>

\* The question whether anything failed: success means that nothing is missing.
Close ==
  /\ verdict = "open"
  /\ verdict' \in {"delivered", "failed"}
  /\ verdict' = "delivered" => shown = given
  /\ UNCHANGED <<given, shown>>

Next == Give \/ Show \/ Close

Spec == Init /\ [][Next]_contractVars
=============================================================================
