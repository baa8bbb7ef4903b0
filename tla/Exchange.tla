------------------------------- MODULE Exchange -------------------------------
(***************************************************************************)
(* An exchange with the ELM327, piece by piece: send_raw, read_response    *)
(* and drain of TcpTransport (src/transport/mod.rs), on the stream that    *)
(* connect has just opened.                                                *)
(*                                                                         *)
(* read_response reads lines through a BufReader of its own until a line   *)
(* has the prompt, or for 5 seconds.  What it has taken off the stream and *)
(* does not return is gone: the rest of the BufReader when it returns,     *)
(* and everything it had read when it times out.                           *)
(*                                                                         *)
(* The far end (proxy, radio, ELM327) is external.  It answers the         *)
(* commands in order, an answer being the pieces of Layout, and may pause, *)
(* leave a command unanswered, or hang up.                                 *)
(***************************************************************************)
EXTENDS Naturals, Sequences

CONSTANTS
  Layout,    \* the pieces of an answer
  MaxAsked   \* bound: the commands written

Shapes == {"text", "lf", "prompt"}

ASSUME ExchangeAssumption ==
  /\ Layout \in Seq(Shapes)
  /\ \E i \in DOMAIN Layout : Layout[i] = "prompt"
  /\ \A i, j \in DOMAIN Layout :
       Layout[i] = "prompt" /\ Layout[j] = "prompt" => i = j
  /\ MaxAsked \in Nat

VARIABLES
  asked,      \* the commands written, ATZ the first
  answering,  \* the answer the far end is at
  sent,       \* how many of its pieces have arrived
  quiet,      \* it pauses for longer than an exchange waits
  open,       \* it has not hung up
  net,        \* the pieces that have arrived and have not been read
  at,         \* where the transport is
  part,       \* what read_response has read so far
  response,   \* what the last exchange returned, <<>> if it failed
  clean,      \* the stream had nothing outstanding when the command was sent
  next        \* the first answer that can still be returned

peer == <<answering, sent, quiet, open>>
vars == <<asked, answering, sent, quiet, open, net, at, part, response,
          clean, next>>

Piece == [is : Shapes, of : Nat]

(* Nothing follows the prompt but, in the answers of the tests of mod.rs,  *)
(* the line feed of its line.                                              *)
PromptIsLast ==
  \A i \in DOMAIN Layout :
     Layout[i] = "prompt"
       => \/ i = Len(Layout)
          \/ i = Len(Layout) - 1 /\ Layout[Len(Layout)] = "lf"

PromptEndsLine ==
  /\ Len(Layout) >= 2
  /\ Layout[Len(Layout) - 1] = "prompt" /\ Layout[Len(Layout)] = "lf"

(* What the ELM327 sends after the ATL0 of INIT_SEQUENCE.                  *)
NoLineFeed == \A i \in DOMAIN Layout : Layout[i] # "lf"

(* The whole answer to a command.                                          *)
Answer(k) == [i \in DOMAIN Layout |-> [is |-> Layout[i], of |-> k]]

Holds(s, shape) == \E i \in DOMAIN s : s[i].is = shape

(* The answers whose prompt is in s.                                       *)
Prompts(s) == {s[i].of : i \in {j \in DOMAIN s : s[j].is = "prompt"}}

(* Wrong: any line ends the answer.                                        *)
LineEndsIt(s, i) == s[i].is = "lf"

(* Wrong: the answer ends at the prompt, and its line is read later.       *)
PromptEndsIt(s, i) == s[i].is = "prompt"

(* The i-th piece ends a line, the first with a prompt.                    *)
Ends(s, i) ==
  /\ s[i].is = "lf"
  /\ \E j \in 1 .. i : s[j].is = "prompt"
  /\ \A j \in 1 .. i - 1 :
       s[j].is = "lf" => \A k \in 1 .. j : s[k].is # "prompt"

PromptSent == \E i \in 1 .. sent : Layout[i] = "prompt"

(* The answer of the next prompt to arrive.                                *)
Upcoming == IF PromptSent THEN answering + 1 ELSE answering

Unanswered == answering <= asked

-----------------------------------------------------------------------------
(* drain: what has arrived by its end is thrown away.                      *)
Drains ==
  /\ at = "reset"
  /\ at' = "idle"
  /\ net' = <<>>
  /\ next' = Upcoming
  /\ UNCHANGED peer /\ UNCHANGED <<asked, part, response, clean>>

(* send: a write to a stream the far end has closed may fail.              *)
Sends ==
  /\ at = "idle" /\ asked < MaxAsked
  /\ at' = "exchange"
  /\ asked' = asked + 1
  /\ response' = <<>>
  /\ clean' = (net = <<>> /\ ~ Unanswered)
  /\ UNCHANGED peer /\ UNCHANGED <<net, part, next>>

WriteFails ==
  /\ at = "idle" /\ ~ open
  /\ response' = <<>>
  /\ UNCHANGED peer /\ UNCHANGED <<asked, net, at, part, clean, next>>

(* Wrong: what was read is kept for the next exchange.                     *)
LeavesPart(result) ==
  /\ at' = "idle"
  /\ response' = result
  /\ next' = Upcoming
  /\ UNCHANGED <<asked, part, clean>>

(* The exchange is over; nothing is kept of what it read.                  *)
Leaves(result) ==
  /\ at' = "idle"
  /\ response' = result
  /\ part' = <<>>
  /\ next' = Upcoming
  /\ UNCHANGED <<asked, clean>>

(* Wrong: what follows the answer is kept for the next exchange, together  *)
(* with the answer.                                                        *)
ReadsAgain ==
  /\ at = "exchange" /\ net # <<>>
  /\ LET read == part \o net
     IN  \E i \in DOMAIN read : Ends(read, i) /\ Leaves(SubSeq(read, 1, i))
  /\ UNCHANGED peer /\ UNCHANGED net

(* Lines are read until one has the prompt; the BufReader has taken all    *)
(* that had arrived.                                                       *)
Returns ==
  /\ at = "exchange" /\ net # <<>>
  /\ LET read == part \o net
     IN  \E i \in DOMAIN read : Ends(read, i) /\ Leaves(SubSeq(read, 1, i))
  /\ net' = <<>>
  /\ UNCHANGED peer

(* Wrong: every read starts a new buffer.                                  *)
ReadsAfresh ==
  /\ at = "exchange" /\ net # <<>>
  /\ \A i \in DOMAIN net : ~ Ends(net, i)
  /\ part' = net
  /\ net' = <<>>
  /\ UNCHANGED peer /\ UNCHANGED <<asked, at, response, clean, next>>

Reads ==
  /\ at = "exchange" /\ net # <<>>
  /\ LET read == part \o net
     IN  /\ \A i \in DOMAIN read : ~ Ends(read, i)
         /\ part' = read
  /\ net' = <<>>
  /\ UNCHANGED peer /\ UNCHANGED <<asked, at, response, clean, next>>

(* At the end of the stream read_line returns a line without its end.      *)
EndReturns ==
  /\ at = "exchange" /\ net = <<>> /\ ~ open
  /\ Holds(part, "prompt")
  /\ Leaves(part)
  /\ UNCHANGED peer /\ UNCHANGED net

(* Wrong: an exchange waits for a far end that has hung up.                *)
TimesOutOpen ==
  /\ at = "exchange" /\ net = <<>>
  /\ quiet \/ (~ Unanswered /\ open)
  /\ Leaves(<<>>)
  /\ quiet' = FALSE
  /\ UNCHANGED <<answering, sent, open, net>>

(* Nothing more comes for 5 seconds; read_line returns nothing, again and  *)
(* again, once the far end has hung up.                                    *)
TimesOut ==
  /\ at = "exchange" /\ net = <<>>
  /\ \/ open /\ (quiet \/ ~ Unanswered)
     \/ ~ open /\ ~ Holds(part, "prompt")
  /\ Leaves(<<>>)
  /\ quiet' = FALSE
  /\ UNCHANGED <<answering, sent, open, net>>

-----------------------------------------------------------------------------
(* The far end.  It may be slow anywhere but right after a prompt.         *)
Arrives ==
  /\ open /\ ~ quiet /\ Unanswered
  /\ net' = Append(net, [is |-> Layout[sent + 1], of |-> answering])
  /\ IF sent + 1 = Len(Layout)
       THEN sent' = 0 /\ answering' = answering + 1
       ELSE sent' = sent + 1 /\ UNCHANGED answering
  /\ UNCHANGED <<asked, quiet, open, at, part, response, clean, next>>

Pauses ==
  /\ at = "exchange" /\ open /\ ~ quiet /\ Unanswered
  /\ sent > 0 => Layout[sent] # "prompt"
  /\ quiet' = TRUE
  /\ UNCHANGED <<asked, answering, sent, open, net, at, part, response,
                 clean, next>>

NeverAnswers ==
  /\ Unanswered /\ sent = 0
  /\ answering' = answering + 1
  /\ UNCHANGED <<asked, sent, quiet, open, net, at, part, response, clean, next>>

HangsUp ==
  /\ open /\ open' = FALSE
  /\ UNCHANGED <<asked, answering, sent, quiet, net, at, part, response,
                 clean, next>>

-----------------------------------------------------------------------------
Init ==
  /\ asked = 1 /\ at = "reset"
  /\ answering = 1 /\ sent = 0 /\ quiet = FALSE /\ open = TRUE
  /\ net = <<>> /\ part = <<>> /\ response = <<>>
  /\ clean = FALSE /\ next = 1

Transport == Drains \/ Returns \/ Reads \/ EndReturns \/ TimesOut

FarEnd == Arrives \/ Pauses \/ NeverAnswers \/ HangsUp

Next == Transport \/ Sends \/ WriteFails \/ FarEnd

(* Time passes: either something comes from the far end or it has paused   *)
(* for longer than an exchange waits, and the transport's tasks run.       *)
Spec == Init /\ [][Next]_vars /\ WF_vars(Transport) /\ WF_vars(FarEnd)

-----------------------------------------------------------------------------
TypeOK ==
  /\ asked \in 1 .. MaxAsked \cup {1}
  /\ answering \in 1 .. asked + 1
  /\ sent \in 0 .. Len(Layout) - 1
  /\ quiet \in BOOLEAN /\ open \in BOOLEAN /\ clean \in BOOLEAN
  /\ net \in Seq(Piece) /\ part \in Seq(Piece) /\ response \in Seq(Piece)
  /\ at \in {"reset", "idle", "exchange"}
  /\ at # "exchange" => part = <<>>
  /\ next \in 1 .. asked + 1

(* s is the beginning of the answer to a command, and no text comes after. *)
WholeText(s, k) ==
  /\ \A i \in DOMAIN s : i \in DOMAIN Layout /\ s[i] = Answer(k)[i]
  /\ \A i \in DOMAIN Layout : Layout[i] = "text" => i \in DOMAIN s

(* On a stream with nothing outstanding an exchange that returns gives the *)
(* whole text of the answer to its own command, in however many pieces it  *)
(* came, and leaves the stream as it was: nothing outstanding or unread.   *)
CleanReads ==
  [][(at = "exchange" /\ clean /\ response' # <<>>)
       => /\ WholeText(response', asked)
          /\ net' = <<>> /\ (open => ~ Unanswered')]_vars

(* What an exchange returns is never pieced together from two answers,     *)
(* although an exchange may have taken the beginning of one with it and    *)
(* left the rest for the next.  It holds where the line of a prompt ends;  *)
(* otherwise a late prompt and the next text are one line.                 *)
OneAnswer ==
  \A i, j \in DOMAIN response :
     (response[i].is # "lf" /\ response[j].is # "lf")
        => response[i].of = response[j].of

(* On such a stream an exchange fails only when the far end has paused or  *)
(* hung up, or has not answered at all: read_response returns the answer   *)
(* when its prompt has come.  It holds of the answers of the tests.        *)
AnswerReturned ==
  [][(at = "exchange" /\ at' = "idle" /\ clean /\ response' = <<>>)
       => quiet \/ ~ open \/ part = <<>>]_vars

(* On such a stream, with a far end that neither pauses nor hangs up, what *)
(* decides whether an answer that has come is returned is whether a line   *)
(* feed follows its prompt: with one it always is, without one never, and  *)
(* the exchange is left to its timeout.                                    *)
ReturnsByLine ==
  [][(at = "exchange" /\ at' = "idle" /\ clean /\ open /\ ~ quiet
        /\ part \o net # <<>>)
       => (response' # <<>> <=> PromptEndsLine)]_vars

(* Every exchange comes to an end.                                         *)
ExchangesEnd == (at = "exchange") ~> (at = "idle")

(* Answers are returned in the order of their commands.                    *)
Answers == INSTANCE OrderedAnswers
             WITH asked <- asked, next <- next, got <- Prompts(response)

AnswersInOrder == Answers!Spec
=============================================================================
