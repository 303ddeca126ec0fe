--------------------------- MODULE OneTimeTicket ----------------------------
(***************************************************************************)
(* What a mailed sign-in ticket promises, whether it is a code or a link:  *)
(* it is issued once, it stops being live at some time and never comes     *)
(* back, a check is granted only for a ticket it saw live, and once a      *)
(* check has been granted the ticket is no longer live.  Two checks are    *)
(* thus granted for one ticket only if both looked before either was       *)
(* answered.  OneTimeTokens implements this module.                        *)
(***************************************************************************)
CONSTANTS Tickets, Checks, NoTicket

VARIABLES
  issued,    \* tickets that have been issued
  live,      \* those that would be accepted now
  looked,    \* the ticket each check saw live, or NoTicket
  granted    \* checks that were answered with a sign-in

vars == <<issued, live, looked, granted>>

TypeOK ==
  /\ issued \subseteq Tickets /\ live \subseteq issued
  /\ looked \in [Checks -> issued \cup {NoTicket}]
  /\ granted \subseteq {c \in Checks : looked[c] # NoTicket}

Init ==
  /\ issued = {} /\ live = {} /\ granted = {}
  /\ looked = [c \in Checks |-> NoTicket]

(* A ticket may be dead when it arrives: its time was up before it was stored. *)
Issue(t) ==
  /\ t \notin issued
  /\ issued' = issued \cup {t}
  /\ live' \in {live, live \cup {t}}
  /\ UNCHANGED <<looked, granted>>

(* Tickets die of age, by being used and by being replaced. *)
Close ==
  /\ live' \in SUBSET live
  /\ UNCHANGED <<issued, looked, granted>>

Look(c) ==
  /\ looked[c] = NoTicket
  /\ \E t \in live : looked' = [looked EXCEPT ![c] = t]
  /\ UNCHANGED <<issued, live, granted>>

Grant(c) ==
  /\ looked[c] # NoTicket /\ looked[c] \notin live
  /\ granted' = granted \cup {c}
  /\ UNCHANGED <<issued, live, looked>>

Next == (\E t \in Tickets : Issue(t)) \/ Close \/ \E c \in Checks : Look(c) \/ Grant(c)

Spec == Init /\ [][Next]_vars

-----------------------------------------------------------------------------
(* The ticket of a granted check is dead for ever. *)
GrantedIsDead == \A c \in granted : looked[c] \notin live

(* No check looks at a ticket after another one was granted for it. *)
NoLookAfterGrant ==
  [][\A c, d \in Checks : (c \in granted /\ looked[d] # looked[c]) => looked'[d] # looked[c]]_vars
=============================================================================
