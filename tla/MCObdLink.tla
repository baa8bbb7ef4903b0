------------------------------ MODULE MCObdLink ------------------------------
(* ObdLink on a small instance: two PIDs, one request of each kind, two    *)
(* commands of the initialisation after the reset, and for each command    *)
(* the answers that take the program down different paths.                 *)
EXTENDS ObdLink

CONSTANTS ATZ, ATE0, Warm, ATSH, P1, P2, C03, C04,  \* commands
          banner, okay, data, halted, codes, cleared,  \* answers
          loop, get, post

MCCommands == {ATZ, ATE0, Warm, ATSH, P1, P2, C03, C04}
MCKinds    == {banner, okay, data, halted, codes, cleared}

MCAnswers ==
  [c \in MCCommands |->
     IF c = ATZ THEN {banner}
     ELSE IF c \in {ATE0, ATSH} THEN {okay}
     ELSE IF c = C03 THEN {codes}
     ELSE IF c = C04 THEN {cleared}
     ELSE IF c = P1 THEN {data, halted}
     ELSE {data}]

Says(words, tokens) ==
  << [prompt |-> FALSE, words |-> words, tokens |-> tokens],
     [prompt |-> TRUE, words |-> {}, tokens |-> <<NotPair>>] >>

(* ELM327 v1.5; OK; 41 0C 0A F0; STOPPED; 43 03 00 00 00; 44               *)
MCTextOf ==
  [k \in MCKinds |->
     IF k = banner THEN Says({}, <<NotPair, NotPair>>)
     ELSE IF k = okay THEN Says({"OK"}, <<NotHex>>)
     ELSE IF k = data THEN Says({}, <<65, 12, 10, 240>>)
     ELSE IF k = halted THEN Says({"STOPPED"}, <<NotPair>>)
     ELSE IF k = codes THEN Says({}, <<67, 3, 0, 0, 0>>)
     ELSE Says({"44"}, <<68>>)]

P(cmd, priority, need) == [cmd |-> cmd, priority |-> priority, need |-> need]
MCPids     == <<P(P1, "Critical", 4), P(P2, "Low", 3)>>
MCDivisors == [Critical |-> 1, High |-> 1, Normal |-> 1, Low |-> 2]
MCInitTail == <<ATE0, Warm>>
=============================================================================
