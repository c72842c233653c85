------------------------------ MODULE Services ------------------------------
(***************************************************************************)
(* The VERSION, AUTH and DIR services: a listener that gives each accepted *)
(* connection a thread, and the three handlers, each a fixed sequence of   *)
(* whole reads (recv_exact) and answers that any time-out, short read or   *)
(* exception ends.  The threads share nothing, so the module follows one   *)
(* connection.                                                             *)
(***************************************************************************)
EXTENDS Naturals, Sequences, FiniteSetsExt

CONSTANTS
  RequestSize,  \* service -> bytes of its first request: 65, 214 and 26 in the code
  HeadSize,     \* bytes of an HNNW header, 6 in the code
  BodySize      \* bytes of the AP body a client sends, at most 65535

ServiceNames == {"VERSION", "AUTH", "DIR"}
ServiceAssumption == RequestSize \in [ServiceNames -> Nat \ {0}] /\ {HeadSize, BodySize} \subseteq Nat \ {0}

-----------------------------------------------------------------------------
(* What a handler does, step by step.  A read that gets nothing at all     *)
(* goes on at "none", 0 being the end, and one that gets too little ends   *)
(* the connection.  A checked read raises on contents it cannot take.      *)

Reads(n, checked, none) == [do |-> "read", size |-> n, checked |-> checked, none |-> none]
Answers == [do |-> "answer", size |-> 0, checked |-> FALSE, none |-> 0]
Lingers == [do |-> "linger", size |-> 0, checked |-> FALSE, none |-> 0]

handle_version == <<Reads(RequestSize["VERSION"], FALSE, 0), Answers>>
handle_dir == <<Reads(RequestSize["DIR"], FALSE, 0), Answers, Lingers>>

\* recv_ap_frame: without a header there is no frame; a wrong sync word, a short header
\* or a short body raises.
recv_ap_frame(none) == <<Reads(HeadSize, TRUE, none), Reads(BodySize, TRUE, 0)>>
\* The client's cmd 5 is not waited for beyond its time-out.
handle_auth ==
  <<Reads(RequestSize["AUTH"], TRUE, 0), Answers>> \o recv_ap_frame(0)
    \o <<Answers>> \o recv_ap_frame(8) \o <<Lingers>>

Program(s) == CASE s = "VERSION" -> handle_version [] s = "AUTH" -> handle_auth [] s = "DIR" -> handle_dir

-----------------------------------------------------------------------------
VARIABLES
  label,    \* the port's service
  sane,     \* the client's bytes pass the handler's checks
  at,       \* the handler's step, 0 when it has closed the connection, -1 before accept
  got,      \* bytes recv_exact has for its read
  taken,    \* bytes received in all
  sent,     \* bytes the client has written
  gone,     \* the client has closed
  answers,  \* for each answer, the bytes taken when it was sent
  late      \* a read has timed out

client == <<label, sane, sent, gone>>
vars   == <<client, at, got, taken, answers, late>>

Step == Program(label)[at]
Size(k) == Program(label)[k].size
\* The bytes the handler takes in its first k steps.
Upto(k) == LET sum[j \in 0..k] == IF j = 0 THEN 0 ELSE sum[j - 1] + Size(j) IN sum[k]
Wanted == Upto(Len(Program(label)))

Init ==
  /\ label \in ServiceNames /\ sane \in BOOLEAN
  /\ at = -1 /\ got = 0 /\ taken = 0 /\ sent = 0 /\ gone = FALSE /\ answers = <<>> /\ late = FALSE

-----------------------------------------------------------------------------
(* The client.                                                             *)

\* It may send ahead, send in pieces, say more than is asked, stop or close.
Sends ==
  /\ ~gone /\ at # 0 /\ sent' \in (sent + 1)..(Wanted + 1)
  /\ UNCHANGED <<label, sane, gone, at, got, taken, answers, late>>
Leaves == ~gone /\ gone' = TRUE /\ UNCHANGED <<label, sane, sent, at, got, taken, answers, late>>

-----------------------------------------------------------------------------
(* The server.                                                             *)

\* listen_on_port: accept, and a thread with the label's handler.
Accepts == at = -1 /\ at' = 1 /\ UNCHANGED <<client, got, taken, answers, late>>

GoesOn(to) == at' = (IF to > Len(Program(label)) THEN 0 ELSE to) /\ got' = 0
Closes == at' = 0 /\ got' = 0

\* recv_exact: recv() of no more than what is missing.
Receives ==
  /\ at > 0 /\ Step.do = "read" /\ taken < sent
  /\ \E n \in 1..Min({Step.size - got, sent - taken}) :
       /\ taken' = taken + n
       /\ IF got + n < Step.size THEN got' = got + n /\ UNCHANGED at
          ELSE IF Step.checked /\ ~sane THEN Closes ELSE GoesOn(at + 1)
  /\ UNCHANGED <<client, answers, late>>

\* The client's close or the time-out ends the read with what there is.
BadEndsShort ==
  /\ at > 0 /\ Step.do = "read" /\ taken = sent /\ gone
  /\ late' = (late \/ ~gone)
  /\ IF got = 0 /\ Step.none # 0 THEN GoesOn(Step.none) ELSE Closes
  /\ UNCHANGED <<client, taken, answers>>
EndsShort ==
  /\ at > 0 /\ Step.do = "read" /\ taken = sent
  /\ late' = (late \/ ~gone)
  /\ IF got = 0 /\ Step.none # 0 THEN GoesOn(Step.none) ELSE Closes
  /\ UNCHANGED <<client, taken, answers>>

\* sendall, which may raise when the client has gone.
Replies ==
  /\ at > 0 /\ Step.do = "answer"
  /\ \/ GoesOn(at + 1) /\ answers' = Append(answers, taken)
     \/ gone /\ Closes /\ UNCHANGED answers
  /\ UNCHANGED <<client, taken, late>>

\* One recv() more, whatever it brings, and the close.
Parts ==
  /\ at > 0 /\ Step.do = "linger" /\ Closes /\ taken' = sent
  /\ UNCHANGED <<client, answers, late>>

Handler == Receives \/ EndsShort \/ Replies \/ Parts
Next == Sends \/ Leaves \/ Accepts \/ Handler
Spec == Init /\ [][Next]_vars
FairSpec == Spec /\ WF_vars(Accepts \/ Handler)

-----------------------------------------------------------------------------
\* The k-th answer is sent after exactly the bytes of the requests before it, so that
\* the next request is read from its first byte, also when it was sent ahead; and a
\* client that is there, passes the checks and lets no read time out gets every answer.
AnswerSteps == {k \in DOMAIN Program(label) : Program(label)[k].do = "answer"}
Served ==
  /\ \A k \in DOMAIN answers : \E s \in AnswerSteps :
       Cardinality({t \in AnswerSteps : t <= s}) = k /\ answers[k] = Upto(s)
  /\ at = 0 /\ sane /\ ~gone /\ ~late => Len(answers) = Cardinality(AnswerSteps)

\* Every connection is closed in the end, a silent client's too.
IsClosed == at = 0
=============================================================================
