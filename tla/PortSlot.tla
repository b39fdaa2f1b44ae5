------------------------------- MODULE PortSlot -------------------------------
(***************************************************************************)
(* What the panel's commands promise about the port they are given, with   *)
(* the pidfile, signals and polls left out: one panel at a time holds the  *)
(* port, one that has ended stays ended, and every --stop answers 0 (the   *)
(* panel it found has ended), 1 (it could not or would not stop it) or 2   *)
(* (no panel was up).                                                      *)
(***************************************************************************)
EXTENDS Integers

CONSTANTS Panels, Stops, Nobody

VARIABLES
  holder, \* the panel that holds the port, or Nobody
  up,     \* it has said so: whoever looks finds it
  ended,  \* panels that are gone
  found,  \* [Stops -> the panel the command is about, or Nobody]
  answer  \* [Stops -> 0, 1, 2, or -1 before]

slotVars == <<holder, up, ended, found, answer>>

Init ==
  /\ holder = Nobody /\ up = FALSE /\ ended = {}
  /\ found = [s \in Stops |-> Nobody]
  /\ answer = [s \in Stops |-> -1]

Take(p) ==
  /\ holder = Nobody /\ p \notin ended
  /\ holder' = p
  /\ UNCHANGED <<up, ended, found, answer>>

Announce ==
  /\ holder # Nobody /\ ~up
  /\ up' = TRUE
  /\ UNCHANGED <<holder, ended, found, answer>>

Withdraw ==
  /\ up' = FALSE
  /\ UNCHANGED <<holder, ended, found, answer>>

\* A panel ends; with it goes what it held.
End(p) ==
  /\ ended' = ended \cup {p}
  /\ IF holder = p THEN holder' = Nobody /\ up' = FALSE ELSE UNCHANGED <<holder, up>>
  /\ UNCHANGED <<found, answer>>

Find(s, p) ==
  /\ answer[s] = -1 /\ found[s] = Nobody
  /\ found' = [found EXCEPT ![s] = p]
  /\ UNCHANGED <<holder, up, ended, answer>>

Answer(s, c) ==
  /\ answer[s] = -1
  /\ c = 0 => found[s] \in ended
  /\ c = 2 => ~up
  /\ answer' = [answer EXCEPT ![s] = c]
  /\ UNCHANGED <<holder, up, ended, found>>

Next ==
  \/ \E p \in Panels : Take(p) \/ End(p)
  \/ Announce \/ Withdraw
  \/ \E s \in Stops : (\E p \in Panels : Find(s, p)) \/ (\E c \in 0..2 : Answer(s, c))

Safe == Init /\ [][Next]_slotVars

\* A command that has found a panel answers.
Spec == Safe /\ \A s \in Stops : WF_slotVars(found[s] # Nobody /\ \E c \in 0..2 : Answer(s, c))
===============================================================================
