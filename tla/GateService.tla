----------------------------- MODULE GateService -----------------------------
(***************************************************************************)
(* What the vision nodes promise the backend through /backend/check_gate:  *)
(* every check asked for gets one answer, which never changes, and gets it *)
(* although cameras, the station or the ambient node may be slow.          *)
(***************************************************************************)
EXTENDS Naturals

CONSTANTS Checks, NoCode

\* CheckGate.error_state: 0 as expected, 1 not as expected, 2 breaker not
\* found, 3 no camera.
Codes == 0 .. 3

ASSUME NoCodeAssumption == NoCode \notin Codes

VARIABLES
  asked,    \* the checks asked for
  answer    \* the answer of each check, NoCode before

serviceVars == << asked, answer >>

ServiceInit ==
  /\ asked = {}
  /\ answer = [k \in Checks |-> NoCode]

Ask(k) ==
  /\ k \notin asked
  /\ asked' = asked \cup {k}
  /\ UNCHANGED answer

Reply(k, code) ==
  /\ k \in asked
  /\ answer[k] = NoCode
  /\ answer' = [answer EXCEPT ![k] = code]
  /\ UNCHANGED asked

ServiceNext == \E k \in Checks : Ask(k) \/ \E code \in Codes : Reply(k, code)

ServiceSafety == ServiceInit /\ [][ServiceNext]_serviceVars

ServiceSpec ==
  /\ ServiceSafety
  /\ \A k \in Checks : WF_serviceVars(\E code \in Codes : Reply(k, code))
=============================================================================
