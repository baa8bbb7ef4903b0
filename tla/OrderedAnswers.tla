---------------------------- MODULE OrderedAnswers ----------------------------
(***************************************************************************)
(* What the callers of TcpTransport::send can count on, whatever arrives   *)
(* late, in pieces or not at all: answers are returned in the order of     *)
(* their commands, none twice and none before its command.  It is not      *)
(* promised that a command is returned its own answer.                     *)
(***************************************************************************)
EXTENDS Naturals

VARIABLES
  asked,   \* the commands written
  next,    \* no answer before this one can still be returned
  got      \* the answers that ended in what the last exchange returned

vars == <<asked, next, got>>

(* The transport has written ATZ.                                          *)
Init == asked = 1 /\ next = 1 /\ got = {}

Ask == asked' = asked + 1 /\ got' = {} /\ UNCHANGED next

Return ==
  /\ got' # {} /\ got' \subseteq next .. asked
  /\ next' <= asked + 1 /\ \A k \in got' : k < next'
  /\ UNCHANGED asked

(* Some answers will never be returned.                                    *)
Forget == next' \in next .. asked + 1 /\ got' = {} /\ UNCHANGED asked

Spec == Init /\ [][Ask \/ Return \/ Forget]_vars
=============================================================================
