--------------------------- MODULE DeliveryProofs ---------------------------
(***************************************************************************)
(* What EventLoop does with requests and with elements.  First, for any    *)
(* requests: the event loop implements Requests.  Then, when clients only  *)
(* push, pop, look at ranges and move elements, brpoplpush being the one   *)
(* command that blocks: elements are accounted for, replies are honest and *)
(* the server survives.                                                    *)
(***************************************************************************)
EXTENDS EventLoopProofs

\* A connection holds one unread request at most.
OneUnread == \A c \in Client : Len(inq[c]) <= 1

\* A request is known from when it is sent.
AskedWhenSent == \A id \in ReqId : asked[id] # NoReq <=> id[2] <= sent[id[1]]

\* While the server runs, a request that was sent is unread, hangs or has been
\* answered.
NoneLost ==
    pc # "down" =>
        \A id \in ReqId :
            id[2] <= sent[id[1]] => id \in Unread \cup Hanging \/ replies[id] # <<>>

LifeInv == LockInv /\ OneUnread /\ AskedWhenSent /\ NoneLost

Phases == [id \in ReqId |-> PhaseOf(id)]
Counts == [id \in ReqId |-> Len(replies[id])]

-----------------------------------------------------------------------------
(* The phases of the requests a step does not touch *)

Untouched(x) ==
    /\ asked'[x] = asked[x]
    /\ replies'[x] = replies[x]
    /\ x \in Unread' <=> x \in Unread
    /\ x \in Hanging' <=> x \in Hanging

\* A request that is not touched stays in its phase.
LEMMA PhaseKept ==
    ASSUME NEW x \in ReqId, Untouched(x)
    PROVE  PhaseOf(x)' = PhaseOf(x) /\ Len(replies'[x]) = Len(replies[x])
BY DEF Untouched, PhaseOf

\* A step that touches one request changes the phase of that one.
LEMMA OneMoves ==
    ASSUME NEW id \in ReqId, \A x \in ReqId \ {id} : Untouched(x)
    PROVE  /\ Phases' = [Phases EXCEPT ![id] = PhaseOf(id)']
           /\ Counts' = [Counts EXCEPT ![id] = Len(replies'[id])]
<1>1. \A x \in ReqId \ {id} :
          PhaseOf(x)' = PhaseOf(x) /\ Len(replies'[x]) = Len(replies[x])
    BY PhaseKept
<1>2. Phases' = [x \in ReqId |-> PhaseOf(x)'] /\ Counts' = [x \in ReqId |-> Len(replies'[x])]
    BY DEF Phases, Counts
<1>3. QED BY <1>1, <1>2 DEF Phases, Counts

\* A step that touches none changes no phase.
LEMMA NoneMoves ==
    ASSUME UNCHANGED <<asked, inq, pending, replies>>
    PROVE  Phases' = Phases /\ Counts' = Counts
<1>1. \A x \in ReqId : Untouched(x)
    BY DEF Untouched, Unread, Hanging
<1>2. \A x \in ReqId : PhaseOf(x)' = PhaseOf(x) /\ Len(replies'[x]) = Len(replies[x])
    BY <1>1, PhaseKept
<1>3. Phases' = [x \in ReqId |-> PhaseOf(x)'] /\ Counts' = [x \in ReqId |-> Len(replies'[x])]
    BY DEF Phases, Counts
<1>4. QED BY <1>2, <1>3 DEF Phases, Counts

\* Nor does it disturb the invariant.
LEMMA NoneMovesKeeps ==
    ASSUME LifeInv, UNCHANGED <<asked, sent, inq, pending, replies>>,
           pc = "down" => pc' = "down"
    PROVE  OneUnread' /\ AskedWhenSent' /\ NoneLost'
<1>1. OneUnread' /\ AskedWhenSent'
    BY DEF LifeInv, OneUnread, AskedWhenSent
<1>2. \A x \in ReqId : (x \in Unread' <=> x \in Unread) /\ (x \in Hanging' <=> x \in Hanging)
    BY DEF Unread, Hanging
<1>3. NoneLost'
    BY <1>2 DEF LifeInv, NoneLost
<1>4. QED BY <1>1, <1>3

-----------------------------------------------------------------------------
(* A request is sent *)

\* A client asks only once all it asked before has been answered.
LEMMA AllAnswered ==
    ASSUME LifeInv, pc # "down", NEW c \in Client, cstate[c] = "idle",
           NEW id \in ReqId, id[1] = c, id[2] <= sent[c]
    PROVE  PhaseOf(id) = "answered"
<1>1. TypeOK /\ LockStep /\ IdsSent
    BY DEF LifeInv, LockInv, AnswerInv
<1>2. inq[c] = <<>>
    BY <1>1 DEF LockStep
<1>3. id \notin Unread
    BY <1>1, <1>2 DEF IdsSent, Unread
<1>4. id \notin Hanging
    BY <1>1 DEF LockStep, Hanging
<1>5. replies[id] # <<>> /\ asked[id] # NoReq
    BY <1>3, <1>4 DEF LifeInv, NoneLost, AskedWhenSent
<1>6. QED BY <1>3, <1>4, <1>5 DEF PhaseOf

\* send_request is Send.
LEMMA SendLives ==
    ASSUME LifeInv, pc # "down", NEW c \in Client, NEW r \in Request, send_request(c, r)
    PROVE  Life!Next /\ OneUnread' /\ AskedWhenSent' /\ NoneLost'
<1>0. PICK id : id = <<c, sent[c] + 1>>
    OBVIOUS
<1>1. TypeOK /\ LockStep /\ IdsSent
    BY DEF LifeInv, LockInv, AnswerInv
<1>2. sent \in [Client -> 0..MaxReq] /\ MaxReq \in Nat
    BY <1>1, ConstantsAssumption DEF TypeOK
<1>3. /\ sent[c] < MaxReq
      /\ cstate[c] = "idle"
      /\ sent' = [sent EXCEPT ![c] = @ + 1]
      /\ asked' = [asked EXCEPT ![id] = r]
      /\ inq' = [inq EXCEPT ![c] = Append(@, id)]
      /\ UNCHANGED <<pending, replies, pc>>
    BY <1>0 DEF send_request, queueVars, dataVars, loopVars
<1>4. id \in ReqId
    BY <1>0, <1>2, <1>3 DEF ReqId
<1>5. inq[c] = <<>> /\ inq \in [Client -> Seq(ReqId)] /\ asked \in [ReqId -> Request \cup {NoReq}]
    BY <1>1, <1>3 DEF LockStep, TypeOK
<1>6. inq'[c] = <<id>> /\ \A x \in Client \ {c} : inq'[x] = inq[x]
    BY <1>3, <1>5
<1>7. r # NoReq
    <2>1. r.op \in Op
        BY ConstantsAssumption
    <2>2. QED BY <2>1 DEF Op, NoReq
<1>8. id[1] = c /\ id[2] = sent[c] + 1
    BY <1>0
<1>9. asked'[id] = r /\ \A x \in ReqId \ {id} : asked'[x] = asked[x]
    BY <1>3, <1>4, <1>5
<1>10. \A x \in ReqId : x[1] \in Client /\ x[2] \in Int
    BY ConstantsAssumption DEF ReqId
<1>11. \A x \in ReqId \ {id} :
          /\ x[2] <= sent'[x[1]] <=> x[2] <= sent[x[1]]
    <2> SUFFICES ASSUME NEW x \in ReqId \ {id}
                 PROVE  x[2] <= sent'[x[1]] <=> x[2] <= sent[x[1]]
        OBVIOUS
    <2>1. CASE x[1] # c
        BY <1>2, <1>3, <1>10, <2>1
    <2>2. CASE x[1] = c
        <3>1. x[2] # sent[c] + 1
            BY <1>0, <2>2 DEF ReqId
        <3>2. sent'[c] = sent[c] + 1 /\ sent[c] \in Int
            BY <1>2, <1>3
        <3>3. QED BY <1>10, <2>2, <3>1, <3>2
    <2>3. QED BY <2>1, <2>2
<1>12. id[2] <= sent'[id[1]] /\ ~(id[2] <= sent[id[1]])
    <2>1. sent'[c] = sent[c] + 1 /\ sent[c] \in Int
        BY <1>2, <1>3
    <2>2. QED BY <1>8, <2>1
<1>13. \A x \in ReqId : x \in Unread' <=> x \in Unread \/ x = id
    <2>1. DOMAIN inq'[c] = {1} /\ inq'[c][1] = id /\ DOMAIN inq[c] = {}
        BY <1>5, <1>6
    <2>2. QED BY <1>6, <2>1 DEF Unread
<1>14. \A x \in ReqId : x \in Hanging' <=> x \in Hanging
    BY <1>3 DEF Hanging
<1>15. \A x \in ReqId \ {id} : Untouched(x)
    BY <1>3, <1>9, <1>13, <1>14 DEF Untouched
<1>16. PhaseOf(id) = "unsent" /\ PhaseOf(id)' = "unread"
    <2>1. asked[id] = NoReq
        BY <1>4, <1>12 DEF LifeInv, AskedWhenSent
    <2>2. QED BY <1>4, <1>7, <1>9, <1>13, <2>1 DEF PhaseOf
<1>17. Counts' = Counts
    BY <1>3 DEF Counts
<1>18. ASSUME NEW n \in 1..(id[2] - 1)
       PROVE  Phases[<<id[1], n>>] = "answered"
    <2>1. n \in 1..MaxReq /\ n <= sent[c]
        BY <1>2, <1>3, <1>8
    <2>2. <<c, n>> \in ReqId
        BY <2>1 DEF ReqId
    <2>3. PhaseOf(<<c, n>>) = "answered"
        BY <1>3, <2>1, <2>2, AllAnswered
    <2>4. QED BY <1>8, <2>2, <2>3 DEF Phases
<1>19. Life!Send(id)
    <2>1. Phases' = [Phases EXCEPT ![id] = "unread"]
        BY <1>4, <1>15, <1>16, OneMoves
    <2>2. Phases[id] = "unsent"
        BY <1>4, <1>16 DEF Phases
    <2>3. QED BY <1>3, <1>17, <1>18, <2>1, <2>2 DEF Life!Send, Phases, Counts
<1>20. Life!Next
    BY <1>4, <1>19 DEF Life!Next, Life!Id, ReqId
<1>21. OneUnread'
    <2>1. Len(inq'[c]) = 1
        BY <1>6
    <2>2. ASSUME NEW x \in Client
          PROVE  Len(inq'[x]) <= 1
        <3>1. CASE x = c
            <4>1. Len(inq'[x]) = 1
                BY <2>1, <3>1
            <4>2. QED BY <4>1
        <3>2. CASE x # c
            <4>1. Len(inq'[x]) = Len(inq[x])
                BY <1>6, <3>2
            <4>2. Len(inq[x]) <= 1
                BY DEF LifeInv, OneUnread
            <4>3. QED BY <4>1, <4>2
        <3>3. QED BY <3>1, <3>2
    <2>3. QED BY <2>2 DEF OneUnread
<1>22. AskedWhenSent'
    BY <1>7, <1>9, <1>11, <1>12 DEF LifeInv, AskedWhenSent
<1>23. NoneLost'
    BY <1>3, <1>11, <1>13, <1>14 DEF LifeInv, NoneLost
<1>24. QED BY <1>20, <1>21, <1>22, <1>23

-----------------------------------------------------------------------------
(* A request is handled *)

\* The server takes request id from its connection or from the jobs and answers
\* it, leaves it hanging, or dies of it.
Handled(id) ==
    /\ id \in Unread \cup Hanging
    /\ \A x \in ReqId \ {id} : Untouched(x)
    /\ UNCHANGED <<asked, sent>>
    /\ id \notin Unread'
    /\ \/ /\ id \notin Hanging'
          /\ Len(replies'[id]) = 1
       \/ /\ id \in Unread
          /\ id \in Hanging'
          /\ UNCHANGED <<replies, pc>>
       \/ /\ id \notin Hanging'
          /\ pc' = "down"
          /\ UNCHANGED replies

\* What is unread or hangs has been sent and has no answer.
LEMMA UnderWay ==
    ASSUME LifeInv, NEW id \in ReqId, id \in Unread \cup Hanging
    PROVE  /\ replies[id] = <<>>
           /\ id[2] <= sent[id[1]]
           /\ asked[id] # NoReq
           /\ PhaseOf(id) = IF id \in Unread THEN "unread" ELSE "hanging"
<1>1. IdsSent /\ AnsweredOnce
    BY DEF LifeInv, LockInv, AnswerInv
<1>2. replies[id] = <<>>
    BY <1>1 DEF AnsweredOnce
<1>3. id[2] <= sent[id[1]]
    <2>1. CASE id \in Unread
        BY <1>1, <2>1 DEF IdsSent, Unread
    <2>2. CASE id \in Hanging
        BY <1>1, <2>2 DEF IdsSent, Hanging
    <2>3. QED BY <2>1, <2>2
<1>4. asked[id] # NoReq
    BY <1>3 DEF LifeInv, AskedWhenSent
<1>5. QED BY <1>2, <1>3, <1>4 DEF PhaseOf

\* Such a step is Answer, Hang or Lose.
LEMMA HandledLives ==
    ASSUME LifeInv, pc # "down", TypeOK', NEW id \in ReqId, Handled(id)
    PROVE  Life!Next /\ AskedWhenSent' /\ NoneLost'
<1>1. /\ replies[id] = <<>>
      /\ id[2] <= sent[id[1]]
      /\ asked[id] # NoReq
      /\ PhaseOf(id) = IF id \in Unread THEN "unread" ELSE "hanging"
    BY UnderWay DEF Handled
<1>2. /\ Phases' = [Phases EXCEPT ![id] = PhaseOf(id)']
      /\ Counts' = [Counts EXCEPT ![id] = Len(replies'[id])]
    BY OneMoves DEF Handled
<1>3. asked' = asked /\ sent' = sent /\ id \notin Unread'
    BY DEF Handled
<1>4. Phases[id] = PhaseOf(id) /\ Phases[id] \in {"unread", "hanging"}
    BY <1>1 DEF Phases
<1>5. CASE id \notin Hanging' /\ Len(replies'[id]) = 1
    <2>1. replies'[id] # <<>>
        BY <1>5
    <2>2. PhaseOf(id)' = "answered"
        BY <1>1, <1>3, <1>5, <2>1 DEF PhaseOf
    <2>3. Life!Answer(id)
        BY <1>2, <1>4, <1>5, <2>2 DEF Life!Answer, Phases, Counts
    <2>4. Life!Next
        BY <2>3 DEF Life!Next, Life!Id, ReqId
    <2>5. NoneLost'
        BY <1>3, <2>1 DEF LifeInv, NoneLost, Handled, Untouched
    <2>6. QED BY <1>3, <2>4, <2>5 DEF LifeInv, AskedWhenSent
<1>6. CASE id \in Unread /\ id \in Hanging' /\ UNCHANGED <<replies, pc>>
    <2>1. PhaseOf(id)' = "hanging"
        BY <1>1, <1>3, <1>6 DEF PhaseOf
    <2>2. Counts' = Counts
        BY <1>6 DEF Counts
    <2>3. Life!Hang(id)
        BY <1>1, <1>2, <1>4, <1>6, <2>1, <2>2 DEF Life!Hang, Phases, Counts
    <2>4. Life!Next
        BY <2>3 DEF Life!Next, Life!Id, ReqId
    <2>5. NoneLost'
        BY <1>3, <1>6 DEF LifeInv, NoneLost, Handled, Untouched
    <2>6. QED BY <1>3, <2>4, <2>5 DEF LifeInv, AskedWhenSent
<1>7. CASE id \notin Hanging' /\ pc' = "down" /\ UNCHANGED replies
    <2>1. PhaseOf(id)' = "lost"
        BY <1>1, <1>3, <1>7 DEF PhaseOf
    <2>2. Counts' = Counts
        BY <1>7 DEF Counts
    <2>3. Life!Lose(id)
        BY <1>2, <1>4, <1>7, <2>1, <2>2 DEF Life!Lose, Phases, Counts
    <2>4. Life!Next
        BY <2>3 DEF Life!Next, Life!Id, ReqId
    <2>5. NoneLost'
        BY <1>7 DEF NoneLost
    <2>6. QED BY <1>3, <2>4, <2>5 DEF LifeInv, AskedWhenSent
<1>8. QED BY <1>5, <1>6, <1>7 DEF Handled

\* A job that is added hangs, with those that hung.
LEMMA HangingGrows ==
    ASSUME TypeOK, NEW id \in ReqId, NEW f \in Fd, pending' = addto_pending(id, f)
    PROVE  \A x \in ReqId : x \in Hanging' <=> x \in Hanging \/ x = id
<1> DEFINE J == [id : ReqId, fd : Fd]
           job == [id |-> id, fd |-> f]
<1>1. pending \in Seq(J) /\ Len(pending) \in Nat /\ job \in J
    BY DEF TypeOK
<1>2. job.id = id /\ DOMAIN pending = 1..Len(pending)
    BY <1>1
<1> HIDE DEF J, job
<1>3. /\ DOMAIN pending' = 1..(Len(pending) + 1)
      /\ \A i \in DOMAIN pending' : pending'[i] = IF i = 1 THEN job ELSE pending[i - 1]
    <2>1. pending' = <<job>> \o pending
        BY DEF addto_pending, job
    <2>2. <<job>> \in Seq(J) /\ Len(<<job>>) = 1 /\ <<job>>[1] = job
        BY <1>1
    <2>3. QED BY <1>1, <2>1, <2>2, ConcatProperties
<1>4. 1 \in DOMAIN pending' /\ pending'[1].id = id
    BY <1>1, <1>2, <1>3
<1>5. \A i \in DOMAIN pending :
          i + 1 \in DOMAIN pending' /\ pending'[i + 1] = pending[i]
    BY <1>1, <1>2, <1>3
<1>6. \A i \in DOMAIN pending' :
          i = 1 \/ (i - 1 \in DOMAIN pending /\ pending'[i] = pending[i - 1])
    BY <1>1, <1>2, <1>3
<1>7. QED BY <1>4, <1>5, <1>6 DEF Hanging

\* A job that is unlinked no longer hangs, and the others do.
LEMMA HangingShrinks ==
    ASSUME TypeOK, AnsweredOnce, walk <= Len(pending), pending' = Unlink(pending, walk)
    PROVE  \A x \in ReqId : x \in Hanging' <=> x \in Hanging /\ x # pending[walk].id
<1> DEFINE Old(i) == IF i < walk THEN i ELSE i + 1
           New(i) == IF i < walk THEN i ELSE i - 1
<1>1. /\ walk \in DOMAIN pending
      /\ DOMAIN pending' = 1..(Len(pending) - 1)
      /\ \A i \in DOMAIN pending' :
            Old(i) \in DOMAIN pending /\ Old(i) # walk /\ pending'[i] = pending[Old(i)]
    BY UnlinkIs
<1>2. DOMAIN pending = 1..Len(pending) /\ Len(pending) \in Nat /\ walk \in Nat
    BY DEF TypeOK
<1>3. \A i \in DOMAIN pending \ {walk} : New(i) \in DOMAIN pending' /\ Old(New(i)) = i
    BY <1>1, <1>2
<1>4. \A i \in DOMAIN pending \ {walk} : \E j \in DOMAIN pending' : pending'[j] = pending[i]
    BY <1>1, <1>3
<1> HIDE DEF Old, New
<1>5. ASSUME NEW x \in ReqId, x \in Hanging'
      PROVE  x \in Hanging /\ x # pending[walk].id
    BY <1>1, <1>5 DEF Hanging, AnsweredOnce
<1>6. ASSUME NEW x \in ReqId, x \in Hanging, x # pending[walk].id
      PROVE  x \in Hanging'
    BY <1>4, <1>6 DEF Hanging
<1>7. QED BY <1>5, <1>6

\* read_request handles the one request its connection holds.
LEMMA ReadHandles ==
    ASSUME LifeInv, AnswerInv', NEW f \in Fd, read_request(f)
    PROVE  OneUnread' /\ \E id \in ReqId : Handled(id)
<1> DEFINE c == conn[f]
<1>1. TypeOK /\ IdsSent /\ AnsweredOnce
    BY DEF LifeInv, LockInv, AnswerInv
<1>2. c \in Client /\ inq[c] \in Seq(ReqId) /\ inq[c] # <<>>
    BY <1>1 DEF TypeOK, read_request
<1>3. PICK id : id = Head(inq[c])
    OBVIOUS
<1>4. Len(inq[c]) = 1 /\ DOMAIN inq[c] = {1} /\ inq[c][1] = id /\ id \in ReqId
    <2>1. Len(inq[c]) \in Nat /\ Len(inq[c]) # 0 /\ Len(inq[c]) <= 1
        BY <1>2 DEF LifeInv, OneUnread
    <2>2. \A n \in Nat : n # 0 /\ n <= 1 => n = 1
        OBVIOUS
    <2>3. Len(inq[c]) = 1
        BY <2>1, <2>2
    <2>4. QED BY <1>2, <1>3, <2>3
<1>5. inq' = [inq EXCEPT ![c] = <<>>] /\ UNCHANGED <<asked, sent>>
    BY DEF read_request, clientVars
<1>6. \A x \in Client : inq'[x] = IF x = c THEN <<>> ELSE inq[x]
    BY <1>1, <1>5 DEF TypeOK
<1>7. id \in Unread /\ id[1] = c
    BY <1>1, <1>2, <1>4 DEF Unread, IdsSent
<1>8. \A x \in ReqId : x \in Unread' <=> x \in Unread /\ x # id
    BY <1>1, <1>2, <1>4, <1>6, <1>7 DEF Unread, IdsSent
<1>9. id \notin Hanging
    BY <1>4, <1>7, <1>1 DEF AnsweredOnce
<1>10. OneUnread'
    <2> SUFFICES ASSUME NEW x \in Client
                 PROVE  Len(inq'[x]) <= 1
        BY DEF OneUnread
    <2>1. CASE x = c
        BY <1>6, <2>1
    <2>2. CASE x # c
        BY <1>6, <2>2 DEF LifeInv, OneUnread
    <2>3. QED BY <2>1, <2>2
<1>11. CASE (\E reply : send_reply(f, id, reply)) /\ UNCHANGED pending
    <2>1. /\ \A x \in ReqId \ {id} : replies'[x] = replies[x]
          /\ replies[id] = <<>> => Len(replies'[id]) = 1
        BY <1>1, <1>4, <1>11, SendAnswers
    <2>2. replies[id] = <<>>
        BY <1>1, <1>4, <1>7 DEF AnsweredOnce
    <2>3. \A x \in ReqId : x \in Hanging' <=> x \in Hanging
        BY <1>11 DEF Hanging
    <2>4. Handled(id)
        BY <1>4, <1>5, <1>7, <1>8, <1>9, <2>1, <2>2, <2>3 DEF Handled, Untouched
    <2>5. QED BY <1>4, <1>10, <2>4
<1>12. CASE UNCHANGED <<replies, pending>> /\ pc' = "down"
    <2>1. \A x \in ReqId : x \in Hanging' <=> x \in Hanging
        BY <1>12 DEF Hanging
    <2>2. Handled(id)
        BY <1>4, <1>5, <1>7, <1>8, <1>9, <1>12, <2>1 DEF Handled, Untouched
    <2>3. QED BY <1>4, <1>10, <2>2
<1>13. CASE UNCHANGED <<replies, pc>> /\ pending' = addto_pending(id, f)
    <2>1. \A x \in ReqId : x \in Hanging' <=> x \in Hanging \/ x = id
        BY <1>1, <1>4, <1>13, HangingGrows
    <2>2. Handled(id)
        BY <1>4, <1>5, <1>7, <1>8, <1>13, <2>1 DEF Handled, Untouched
    <2>3. QED BY <1>4, <1>10, <2>2
<1>14. QED BY <1>3, <1>11, <1>12, <1>13 DEF read_request, queueVars

\* do_hanging_jobs handles the job at its walk.
LEMMA FinishHandles ==
    ASSUME LifeInv, walk <= Len(pending), UNCHANGED <<asked, sent, inq>>,
           NEW d, NEW a, NEW current, FinishJob(d, a, current)
    PROVE  \E id \in ReqId : Handled(id)
<1>1. TypeOK /\ AnsweredOnce
    BY DEF LifeInv, LockInv, AnswerInv
<1>2. PICK id : id = pending[walk].id
    OBVIOUS
<1>3. id \in ReqId /\ pending[walk].fd \in Fd /\ walk \in DOMAIN pending
    <2>1. walk \in 1..Len(pending) /\ DOMAIN pending = 1..Len(pending)
        BY <1>1 DEF TypeOK
    <2>2. QED BY <1>1, <1>2, <2>1, JobIs
<1>4. id \in Hanging /\ id \notin Unread /\ replies[id] = <<>>
    BY <1>1, <1>2, <1>3 DEF Hanging, AnsweredOnce
<1>5. \A x \in ReqId : x \in Unread' <=> x \in Unread
    BY DEF Unread
<1>6. \A x \in ReqId : x \in Hanging' <=> x \in Hanging /\ x # id
    BY <1>1, <1>2, HangingShrinks DEF FinishJob
<1>7. CASE \E reply : send_reply(pending[walk].fd, id, reply)
    <2>1. /\ \A x \in ReqId \ {id} : replies'[x] = replies[x]
          /\ Len(replies'[id]) = 1
        BY <1>1, <1>3, <1>4, <1>7, SendAnswers
    <2>2. Handled(id)
        BY <1>3, <1>4, <1>5, <1>6, <2>1 DEF Handled, Untouched
    <2>3. QED BY <1>3, <2>2
<1>8. CASE UNCHANGED replies /\ pc' = "down"
    <2>1. Handled(id)
        BY <1>3, <1>4, <1>5, <1>6, <1>8 DEF Handled, Untouched
    <2>2. QED BY <1>3, <2>1
<1>9. QED BY <1>2, <1>7, <1>8 DEF FinishJob, queueVars

-----------------------------------------------------------------------------
(* The refinement *)

\* Before main_loop nothing has been sent.
LEMMA LifeInit == Init => LifeInv /\ Life!Init
<1> SUFFICES ASSUME Init
             PROVE  LifeInv /\ Life!Init
    OBVIOUS
<1>1. LockInv
    BY InitLock
<1>2. /\ \A c \in Client : inq[c] = <<>> /\ sent[c] = 0
      /\ \A id \in ReqId : asked[id] = NoReq /\ replies[id] = <<>>
      /\ pc = "poll"
    BY DEF Init
<1>3. \A id \in ReqId : ~(id[2] <= sent[id[1]])
    <2>1. \A id \in ReqId : id[1] \in Client /\ id[2] \in 1..MaxReq
        BY DEF ReqId
    <2>2. QED BY <1>2, <2>1, ConstantsAssumption
<1>4. OneUnread /\ AskedWhenSent /\ NoneLost
    BY <1>2, <1>3 DEF OneUnread, AskedWhenSent, NoneLost
<1>5. \A id \in ReqId : PhaseOf(id) = "unsent" /\ Len(replies[id]) = 0
    BY <1>2 DEF PhaseOf
<1>6. Life!Init
    BY <1>2, <1>5 DEF Life!Init, Life!Id, ReqId
<1>7. QED BY <1>1, <1>4, <1>6 DEF LifeInv

\* Every step of the event loop is one of Requests, or changes no phase.
LEMMA LifeStep ==
    ASSUME "waiting" \notin ExitWhen
    PROVE  LifeInv /\ [Next]_vars => LifeInv' /\ [Life!Next]_Life!vars
<1> SUFFICES ASSUME LifeInv, [Next]_vars
             PROVE  OneUnread' /\ AskedWhenSent' /\ NoneLost' /\ [Life!Next]_Life!vars
    BY LockKept DEF LifeInv
<1>0. AnswerInv' /\ TypeOK'
    BY AnswersKept DEF LifeInv, LockInv, AnswerInv
<1>1. ASSUME UNCHANGED <<asked, sent, inq, pending, replies, pc>>
      PROVE  OneUnread' /\ AskedWhenSent' /\ NoneLost' /\ [Life!Next]_Life!vars
    <2>1. OneUnread' /\ AskedWhenSent' /\ NoneLost'
        BY <1>1, NoneMovesKeeps
    <2>2. Phases' = Phases /\ Counts' = Counts /\ pc' = pc
        BY <1>1, NoneMoves
    <2>3. QED BY <2>1, <2>2 DEF Life!vars, Phases, Counts
<1>2. ASSUME UNCHANGED <<asked, sent, inq, pending, replies>>, pc # "down"
      PROVE  OneUnread' /\ AskedWhenSent' /\ NoneLost' /\ [Life!Next]_Life!vars
    <2>1. OneUnread' /\ AskedWhenSent' /\ NoneLost'
        BY <1>2, NoneMovesKeeps
    <2>2. Phases' = Phases /\ Counts' = Counts
        BY <1>2, NoneMoves
    <2>3. CASE pc' # "down"
        BY <1>2, <2>1, <2>2, <2>3 DEF Life!vars, Phases, Counts
    <2>4. CASE pc' = "down"
        <3>1. Life!Next
            BY <1>2, <2>2, <2>4 DEF Life!Next, Life!Die, Phases, Counts
        <3>2. QED BY <2>1, <3>1
    <2>5. QED BY <2>3, <2>4
<1>3. CASE UNCHANGED vars
    BY <1>1, <1>3 DEF vars
<1>4. CASE Clients
    <2>1. ASSUME NEW c \in Client, NEW r \in Request, send_request(c, r)
          PROVE  OneUnread' /\ AskedWhenSent' /\ NoneLost' /\ [Life!Next]_Life!vars
        BY <1>4, <2>1, SendLives DEF Clients
    <2>2. ASSUME NEW c \in Client, connect_server(c) \/ read_reply(c) \/ client_exit(c)
          PROVE  OneUnread' /\ AskedWhenSent' /\ NoneLost' /\ [Life!Next]_Life!vars
        <3>1. UNCHANGED <<asked, sent, inq, pending, replies, pc>>
            BY <2>2 DEF connect_server, read_reply, client_exit, queueVars, dataVars, loopVars
        <3>2. QED BY <1>1, <3>1
    <2>3. QED BY <1>4, <2>1, <2>2 DEF Clients
<1>5. CASE Server
    <2>1. CASE epoll_wait \/ accept_connection \/ events_done \/ jobs_done
        <3>1. UNCHANGED <<asked, sent, inq, pending, replies>> /\ pc # "down"
            BY <2>1 DEF epoll_wait, accept_connection, events_done, jobs_done, Handling,
                        clientVars, queueVars, dataVars
        <3>2. QED BY <1>2, <3>1
    <2>2. ASSUME NEW f \in Fd, process_in_data(f)
          PROVE  OneUnread' /\ AskedWhenSent' /\ NoneLost' /\ [Life!Next]_Life!vars
        <3>1. pc # "down"
            BY <2>2 DEF process_in_data, read_request, read_fails, disconnected, Handling
        <3>2. CASE read_request(f)
            BY <1>0, <3>1, <3>2, ReadHandles, HandledLives
        <3>3. CASE read_fails(f) \/ disconnected(f)
            <4>1. UNCHANGED <<asked, sent, inq, pending, replies>>
                BY <3>3 DEF read_fails, disconnected, clientVars, queueVars, dataVars
            <4>2. QED BY <1>2, <3>1, <4>1
        <3>4. QED BY <2>2, <3>2, <3>3 DEF process_in_data
    <2>3. ASSUME pc = "jobs", walk <= Len(pending), UNCHANGED <<asked, sent, inq>>,
                 NEW d, NEW a, NEW current, FinishJob(d, a, current)
          PROVE  OneUnread' /\ AskedWhenSent' /\ NoneLost' /\ [Life!Next]_Life!vars
        <3>1. OneUnread'
            BY <2>3 DEF LifeInv, OneUnread
        <3>2. PICK id \in ReqId : Handled(id)
            BY <2>3, FinishHandles
        <3>3. QED BY <1>0, <2>3, <3>1, <3>2, HandledLives
    <2>4. CASE job_timeout
        BY <2>3, <2>4 DEF job_timeout, clientVars
    <2>5. CASE job_attempt
        <3>1. pc = "jobs" /\ walk <= Len(pending) /\ UNCHANGED <<asked, sent, inq>>
            BY <2>5 DEF job_attempt, clientVars
        <3>2. CASE \E out : FinishJob(out.db, out.arr, out.reply)
            BY <2>3, <3>1, <3>2
        <3>3. CASE UNCHANGED <<pending, replies>>
            BY <1>2, <3>1, <3>3
        <3>4. QED BY <2>5, <3>2, <3>3 DEF job_attempt, queueVars
    <2>6. QED BY <1>5, <2>1, <2>2, <2>4, <2>5 DEF Server
<1>6. QED BY <1>3, <1>4, <1>5 DEF Next

\* As long as no client exits while it waits, the sockets, the events, the jobs
\* and the walk of do_hanging_jobs through them make each request live as
\* Requests says: it is sent after the one before it has been answered, it is
\* answered once, and it is lost only if the server dies of it.
THEOREM RequestsLive ==
    ASSUME "waiting" \notin ExitWhen
    PROVE  Spec => LivesOn
<1>1. LifeInv /\ [Next]_vars => LifeInv' /\ [Life!Next]_Life!vars
    BY LifeStep
<1>2. QED BY <1>1, LifeInit, PTL DEF Spec, LivesOn, Life!Spec

-----------------------------------------------------------------------------
(* Clients that push, pop, look and move *)

Pushes == {"lpush", "rpush"}
Pops == {"lpop", "rpop"}

MovesOnly ==
    \A r \in Request :
        r.op = "invalid" \/ (ArgsOK(r) /\ r.op \notin {"blpop", "brpop", "set", "del"})

\* Every key that exists holds a list that is not empty.
ListsOnly(d) ==
    \A k \in Key : d[k].type # "string" /\ (d[k].type = "list" => d[k].items # <<>>)

\* No element is in two places.
Distinct(d) ==
    \A k, l \in Key : \A i \in DOMAIN d[k].items : \A j \in DOMAIN d[l].items :
        d[k].items[i] = d[l].items[j] => k = l /\ i = j

-----------------------------------------------------------------------------
(* Taking an element from a list and putting one in *)

\* An element is stored if some list has it.
LEMMA StoredIs ==
    ASSUME NEW d, NEW e
    PROVE  e \in Stored(d) <=> \E k \in Key : \E i \in DOMAIN d[k].items : d[k].items[i] = e
<1>1. \A s : ToSet(s) = {s[i] : i \in DOMAIN s}
    BY DEF ToSet
<1>2. QED BY <1>1 DEF Stored

\* What is left of a list after a pop is the list without the place of the
\* element popped.
LEMMA RestIs ==
    ASSUME NEW s \in Seq(ReqId), s # <<>>, NEW side
    PROVE  \E p \in DOMAIN s, o \in {0, 1} :
              /\ s[p] = list_pop(s, side)
              /\ \A i \in DOMAIN list_rest(s, side) :
                    i + o \in DOMAIN s \ {p} /\ list_rest(s, side)[i] = s[i + o]
              /\ \A j \in DOMAIN s \ {p} :
                    j - o \in DOMAIN list_rest(s, side) /\ (j - o) + o = j
<1>1. Len(s) \in Nat /\ Len(s) >= 1 /\ DOMAIN s = 1..Len(s)
    BY EmptySeq
<1>2. CASE side = "left"
    <2> DEFINE t == Tail(s)
    <2>1. /\ DOMAIN t = 1..(Len(s) - 1)
          /\ \A i \in 1..(Len(s) - 1) : t[i] = s[i + 1]
          /\ Head(s) = s[1]
        BY <1>1
    <2>2. list_rest(s, side) = t /\ list_pop(s, side) = s[1]
        BY <1>2, <2>1 DEF list_rest, list_pop
    <2> HIDE DEF t
    <2>3. /\ \A i \in DOMAIN t : i + 1 \in DOMAIN s \ {1} /\ t[i] = s[i + 1]
          /\ \A j \in DOMAIN s \ {1} : j - 1 \in DOMAIN t /\ (j - 1) + 1 = j
          /\ 1 \in DOMAIN s
        BY <1>1, <2>1
    <2>4. QED BY <2>2, <2>3
<1>3. CASE side # "left"
    <2> DEFINE t == Front(s)
               n == Len(s)
    <2>1. /\ DOMAIN t = 1..(n - 1)
          /\ \A i \in 1..(n - 1) : t[i] = s[i]
          /\ Last(s) = s[n]
        BY <1>1 DEF Front, Last
    <2>2. list_rest(s, side) = t /\ list_pop(s, side) = s[n]
        BY <1>3, <2>1 DEF list_rest, list_pop
    <2>3. n \in Nat /\ n >= 1 /\ DOMAIN s = 1..n
        BY <1>1
    <2> HIDE DEF t, n
    <2>4. /\ \A i \in DOMAIN t : i + 0 \in DOMAIN s \ {n} /\ t[i] = s[i + 0]
          /\ \A j \in DOMAIN s \ {n} : j - 0 \in DOMAIN t /\ (j - 0) + 0 = j
          /\ n \in DOMAIN s
        BY <2>1, <2>3
    <2>5. QED BY <2>2, <2>4
<1>4. QED BY <1>2, <1>3

\* After an insertion a list has its elements and the new one, in a place of its
\* own.
LEMMA InsertIs ==
    ASSUME NEW s \in Seq(ReqId), NEW e \in ReqId, NEW side,
           NEW t, t = list_insert(s, side, e)
    PROVE  \E p \in DOMAIN t, o \in {0, 1} :
              /\ t[p] = e
              /\ \A i \in DOMAIN t \ {p} :
                    i - o \in DOMAIN s /\ t[i] = s[i - o] /\ (i - o) + o = i
              /\ \A j \in DOMAIN s : j + o \in DOMAIN t \ {p} /\ t[j + o] = s[j]
<1>1. Len(s) \in Nat /\ DOMAIN s = 1..Len(s)
    OBVIOUS
<1>2. <<e>> \in Seq(ReqId) /\ Len(<<e>>) = 1 /\ <<e>>[1] = e
    OBVIOUS
<1>3. CASE side = "left"
    <2>1. t = <<e>> \o s
        BY <1>3 DEF list_insert
    <2>2. /\ Len(t) = Len(s) + 1
          /\ t \in Seq(ReqId)
          /\ \A i \in 1..(Len(s) + 1) : t[i] = IF i <= 1 THEN <<e>>[i] ELSE s[i - 1]
        BY <1>1, <1>2, <2>1, ConcatProperties
    <2>3. DOMAIN t = 1..(Len(s) + 1) /\ 1 \in DOMAIN t /\ t[1] = e
        BY <1>1, <1>2, <2>2
    <2>4. /\ \A i \in DOMAIN t \ {1} : i - 1 \in DOMAIN s /\ t[i] = s[i - 1] /\ (i - 1) + 1 = i
          /\ \A j \in DOMAIN s : j + 1 \in DOMAIN t \ {1} /\ t[j + 1] = s[j]
        BY <1>1, <2>2, <2>3
    <2>5. QED BY <2>3, <2>4
<1>4. CASE side # "left"
    <2> DEFINE n == Len(s) + 1
    <2>1. t = Append(s, e)
        BY <1>4 DEF list_insert
    <2>2. DOMAIN t = 1..n /\ (\A i \in 1..n : t[i] = IF i = n THEN e ELSE s[i])
        BY <1>1, <2>1
    <2>3. n \in Nat /\ DOMAIN s = 1..(n - 1) /\ n \in DOMAIN t
        BY <1>1, <2>2
    <2> HIDE DEF n
    <2>4. /\ \A i \in DOMAIN t \ {n} : i - 0 \in DOMAIN s /\ t[i] = s[i - 0] /\ (i - 0) + 0 = i
          /\ \A j \in DOMAIN s : j + 0 \in DOMAIN t \ {n} /\ t[j + 0] = s[j]
        BY <2>2, <2>3
    <2>5. QED BY <2>2, <2>3, <2>4
<1>5. QED BY <1>3, <1>4

\* It is a list, and the one list_insert_all makes of a single value.
LEMMA InsertKeeps ==
    ASSUME NEW s \in Seq(ReqId), NEW e \in ReqId, NEW side
    PROVE  LET t == list_insert(s, side, e)
           IN  t \in Seq(ReqId) /\ t # <<>> /\ list_insert_all(s, side, <<e>>) = t
<1>1. <<e>> \in Seq(ReqId) /\ Len(<<e>>) = 1 /\ Len(s) \in Nat
    OBVIOUS
<1>2. CASE side = "left"
    <2>1. Reverse(<<e>>) = <<e>>
        BY DEF Reverse
    <2>2. <<e>> \o s \in Seq(ReqId) /\ Len(<<e>> \o s) = 1 + Len(s)
        BY <1>1, ConcatProperties
    <2>3. <<e>> \o s # <<>>
        BY <1>1, <2>2
    <2>4. QED BY <1>2, <2>1, <2>2, <2>3 DEF list_insert, list_insert_all
<1>3. CASE side # "left"
    <2>1. s \o <<e>> = Append(s, e) /\ Append(s, e) \in Seq(ReqId)
        OBVIOUS
    <2>2. Append(s, e) # <<>>
        BY <1>1
    <2>3. QED BY <1>3, <2>1, <2>2 DEF list_insert, list_insert_all
<1>4. QED BY <1>2, <1>3

\* Keyspaces d and d2 differ in the elements of key k at most.
ItemsChange(d, d2, k, s) ==
    /\ d2[k].items = s
    /\ \A x \in Key \ {k} : d2[x].items = d[x].items

\* d2 stores one element more than d, or one less.
Adds(d, d2, e) == Stored(d2) = Stored(d) \cup {e}
Removes(d, d2, e) == e \in Stored(d) /\ Stored(d2) = Stored(d) \ {e}

\* A pop takes one element out of the keyspace, and leaves the others once each.
LEMMA PopTakesOne ==
    ASSUME NEW d, NEW d2, NEW k \in Key, NEW side, Distinct(d),
           NEW s \in Seq(ReqId), s = d[k].items, s # <<>>,
           NEW t, t = list_rest(s, side), NEW e, e = list_pop(s, side),
           ItemsChange(d, d2, k, t)
    PROVE  Distinct(d2) /\ Removes(d, d2, e)
<1>1. PICK p \in DOMAIN s, o \in {0, 1} :
              /\ s[p] = e
              /\ \A i \in DOMAIN t : i + o \in DOMAIN s \ {p} /\ t[i] = s[i + o]
              /\ \A j \in DOMAIN s \ {p} : j - o \in DOMAIN t /\ (j - o) + o = j
    BY RestIs
<1>2. d2[k].items = t /\ \A x \in Key \ {k} : d2[x].items = d[x].items
    BY DEF ItemsChange
<1>3. \A i, j \in DOMAIN t : i + o = j + o => i = j
    <2>1. t \in Seq(ReqId) /\ Len(t) \in Nat /\ DOMAIN t = 1..Len(t)
        BY PopTakes
    <2>2. QED BY <2>1
<1> DEFINE Was(x, i) == IF x = k THEN i + o ELSE i
<1>4. \A x \in Key : \A i \in DOMAIN d2[x].items :
          /\ Was(x, i) \in DOMAIN d[x].items
          /\ d2[x].items[i] = d[x].items[Was(x, i)]
          /\ ~(x = k /\ Was(x, i) = p)
    BY <1>1, <1>2
<1>5. \A x \in Key : \A i, j \in DOMAIN d2[x].items : Was(x, i) = Was(x, j) => i = j
    BY <1>2, <1>3
<1>6. \A x \in Key : \A j \in DOMAIN d[x].items :
          ~(x = k /\ j = p) => \E i \in DOMAIN d2[x].items : d2[x].items[i] = d[x].items[j]
    <2> SUFFICES ASSUME NEW x \in Key, NEW j \in DOMAIN d[x].items, ~(x = k /\ j = p)
                 PROVE  \E i \in DOMAIN d2[x].items : d2[x].items[i] = d[x].items[j]
        OBVIOUS
    <2>1. CASE x # k
        BY <1>2, <2>1
    <2>2. CASE x = k
        <3>1. j - o \in DOMAIN t /\ t[j - o] = s[j]
            BY <1>1, <2>2
        <3>2. QED BY <1>2, <2>2, <3>1
    <2>3. QED BY <2>1, <2>2
<1> HIDE DEF Was
<1>7. Distinct(d2)
    BY <1>4, <1>5 DEF Distinct
<1>8. e \in Stored(d)
    BY <1>1, StoredIs
<1>9. ASSUME NEW y
       PROVE  y \in Stored(d2) <=> y \in Stored(d) /\ y # e
    <2>1. ASSUME y \in Stored(d2)
          PROVE  y \in Stored(d) /\ y # e
        <3>0. PICK x \in Key : \E i \in DOMAIN d2[x].items : d2[x].items[i] = y
            BY <2>1, StoredIs
        <3>1. PICK i \in DOMAIN d2[x].items : d2[x].items[i] = y
            BY <3>0
        <3>2. y \in Stored(d)
            BY <1>4, <3>1, StoredIs
        <3>3. y # e
            BY <1>1, <1>4, <3>1 DEF Distinct
        <3>4. QED BY <3>2, <3>3
    <2>2. ASSUME y \in Stored(d), y # e
          PROVE  y \in Stored(d2)
        <3>0. PICK x \in Key : \E j \in DOMAIN d[x].items : d[x].items[j] = y
            BY <2>2, StoredIs
        <3>1. PICK j \in DOMAIN d[x].items : d[x].items[j] = y
            BY <3>0
        <3>2. ~(x = k /\ j = p)
            BY <1>1, <2>2, <3>1
        <3>3. PICK i \in DOMAIN d2[x].items : d2[x].items[i] = d[x].items[j]
            BY <1>6, <3>1, <3>2
        <3>4. QED BY <3>1, <3>3, StoredIs
    <2>3. QED BY <2>1, <2>2
<1>10. QED BY <1>7, <1>8, <1>9 DEF Removes

\* A push puts one new element into the keyspace.
LEMMA PushPutsOne ==
    ASSUME NEW d, NEW d2, NEW k \in Key, NEW side, NEW e \in ReqId, Distinct(d),
           NEW s \in Seq(ReqId), s = d[k].items, e \notin Stored(d),
           NEW t, t = list_insert(s, side, e), ItemsChange(d, d2, k, t)
    PROVE  Distinct(d2) /\ Adds(d, d2, e)
<1>1. PICK p \in DOMAIN t, o \in {0, 1} :
              /\ t[p] = e
              /\ \A i \in DOMAIN t \ {p} :
                    i - o \in DOMAIN s /\ t[i] = s[i - o] /\ (i - o) + o = i
              /\ \A j \in DOMAIN s : j + o \in DOMAIN t \ {p} /\ t[j + o] = s[j]
    BY InsertIs
<1>2. d2[k].items = t /\ \A x \in Key \ {k} : d2[x].items = d[x].items
    BY DEF ItemsChange
<1> DEFINE New(x, i) == x = k /\ i = p
           Was(x, i) == IF x = k THEN i - o ELSE i
<1>3. \A x \in Key : \A i \in DOMAIN d2[x].items :
          /\ New(x, i) => d2[x].items[i] = e
          /\ ~New(x, i) => /\ Was(x, i) \in DOMAIN d[x].items
                           /\ d2[x].items[i] = d[x].items[Was(x, i)]
    BY <1>1, <1>2
<1>4. \A x \in Key : \A i, j \in DOMAIN d2[x].items :
          ~New(x, i) /\ ~New(x, j) /\ Was(x, i) = Was(x, j) => i = j
    BY <1>1, <1>2
<1>5. \A x \in Key : \A j \in DOMAIN d[x].items :
          \E i \in DOMAIN d2[x].items : d2[x].items[i] = d[x].items[j]
    <2> SUFFICES ASSUME NEW x \in Key, NEW j \in DOMAIN d[x].items
                 PROVE  \E i \in DOMAIN d2[x].items : d2[x].items[i] = d[x].items[j]
        OBVIOUS
    <2>1. CASE x # k
        BY <1>2, <2>1
    <2>2. CASE x = k
        <3>1. j + o \in DOMAIN t /\ t[j + o] = s[j]
            BY <1>1, <2>2
        <3>2. QED BY <1>2, <2>2, <3>1
    <2>3. QED BY <2>1, <2>2
<1>6. \A x \in Key : \A i \in DOMAIN d[x].items : d[x].items[i] # e
    BY StoredIs
<1>7. \A x, y \in Key : \A i, j : New(x, i) /\ New(y, j) => x = y /\ i = j
    OBVIOUS
<1> HIDE DEF Was, New
<1>8. Distinct(d2)
    <2> SUFFICES ASSUME NEW x \in Key, NEW y \in Key, NEW i \in DOMAIN d2[x].items,
                        NEW j \in DOMAIN d2[y].items, d2[x].items[i] = d2[y].items[j]
                 PROVE  x = y /\ i = j
        BY DEF Distinct
    <2>1. CASE New(x, i) /\ New(y, j)
        BY <1>7, <2>1
    <2>2. CASE New(x, i) /\ ~New(y, j)
        BY <1>3, <1>6, <2>2
    <2>3. CASE ~New(x, i) /\ New(y, j)
        BY <1>3, <1>6, <2>3
    <2>4. CASE ~New(x, i) /\ ~New(y, j)
        <3>1. x = y /\ Was(x, i) = Was(y, j)
            BY <1>3, <2>4 DEF Distinct
        <3>2. QED BY <1>4, <2>4, <3>1
    <2>5. QED BY <2>1, <2>2, <2>3, <2>4
<1>9. ASSUME NEW y
       PROVE  y \in Stored(d2) <=> y \in Stored(d) \/ y = e
    <2>1. ASSUME y \in Stored(d2)
          PROVE  y \in Stored(d) \/ y = e
        <3>0. PICK x \in Key : \E i \in DOMAIN d2[x].items : d2[x].items[i] = y
            BY <2>1, StoredIs
        <3>1. PICK i \in DOMAIN d2[x].items : d2[x].items[i] = y
            BY <3>0
        <3>2. QED BY <1>3, <3>1, StoredIs
    <2>2. ASSUME y \in Stored(d)
          PROVE  y \in Stored(d2)
        <3>0. PICK x \in Key : \E j \in DOMAIN d[x].items : d[x].items[j] = y
            BY <2>2, StoredIs
        <3>1. PICK j \in DOMAIN d[x].items : d[x].items[j] = y
            BY <3>0
        <3>2. QED BY <1>5, <3>1, StoredIs
    <2>3. e \in Stored(d2)
        BY <1>1, <1>2, StoredIs
    <2>4. QED BY <2>1, <2>2, <2>3
<1>10. QED BY <1>8, <1>9 DEF Adds

-----------------------------------------------------------------------------
(* What the commands do to the elements *)

\* A keyspace in which the elements are accounted for.
Sound(d) == KeyspaceOK(d) /\ ListsOnly(d) /\ Distinct(d)

\* How a command that ends with a reply of value val changes the elements stored.
Effect(r, id, d, d2, val) ==
    \/ r.op \in Pushes /\ Adds(d, d2, id)
    \/ r.op \in Pops /\ \/ val = <<>> /\ Stored(d2) = Stored(d)
                        \/ \E e : val = <<e>> /\ Removes(d, d2, e)
    \/ r.op \notin Pushes \cup Pops /\ Stored(d2) = Stored(d)

\* What is stored are ids of requests.
LEMMA StoredAreIds ==
    ASSUME NEW d, KeyspaceOK(d)
    PROVE  Stored(d) \subseteq ReqId
<1> SUFFICES ASSUME NEW e \in Stored(d)
             PROVE  e \in ReqId
    OBVIOUS
<1>1. PICK k \in Key : \E i \in DOMAIN d[k].items : d[k].items[i] = e
    BY StoredIs
<1>2. d[k].items \in Seq(ReqId)
    BY ItemsAreElements
<1>3. QED BY <1>1, <1>2

\* A pop from a key that exists: what is left is stored, or the key goes.
LEMMA PopKeepsSound ==
    ASSUME NEW d, Sound(d), NEW k \in Key, ~Missing(d, k), NEW side,
           NEW s, s = d[k].items, NEW t, t = list_rest(s, side),
           NEW e, e = list_pop(s, side), NEW d2, d2 = EndIfEmpty(d, k, t, k)
    PROVE  /\ ~WrongType(d, k)
           /\ s # <<>>
           /\ Sound(d2)
           /\ e \in ReqId
           /\ Removes(d, d2, e)
<1>1. /\ KeyspaceOK(d)
      /\ ListsOnly(d)
      /\ Distinct(d)
      /\ d[k].type \in {"none", "string", "list"}
      /\ s \in Seq(ReqId)
    BY ItemsAreElements DEF Sound, KeyspaceOK, Obj
<1>2. ~WrongType(d, k) /\ s # <<>>
    BY <1>1 DEF ListsOnly, Missing, WrongType
<1>3. t \in Seq(ReqId) /\ e \in ReqId
    BY <1>1, <1>2, PopTakes
<1>4. KeyspaceOK(d2)
    BY <1>1, <1>3, EndIfEmptyKeeps
<1>5. ItemsChange(d, d2, k, t) /\ ListsOnly(d2)
    BY <1>1 DEF ItemsChange, ListsOnly, EndIfEmpty, dict_add, dict_rm, ListObj, NoObj,
                      KeyspaceOK
<1>6. Distinct(d2) /\ Removes(d, d2, e)
    BY <1>1, <1>2, <1>5, PopTakesOne
<1>7. QED BY <1>2, <1>3, <1>4, <1>5, <1>6 DEF Sound

\* A push of an element that is nowhere yet.
LEMMA PushKeepsSound ==
    ASSUME NEW d, Sound(d), NEW k \in Key, NEW side, NEW e \in ReqId, e \notin Stored(d),
           NEW t, t = list_insert(d[k].items, side, e),
           NEW d2, d2 = dict_add(d, k, ListObj(t))
    PROVE  ~WrongType(d, k) /\ Sound(d2) /\ Adds(d, d2, e)
<1>1. /\ KeyspaceOK(d)
      /\ ListsOnly(d)
      /\ Distinct(d)
      /\ d[k].items \in Seq(ReqId)
    BY ItemsAreElements DEF Sound
<1>2. t \in Seq(ReqId) /\ t # <<>>
    BY <1>1, InsertKeeps
<1>3. KeyspaceOK(d2)
    BY <1>1, <1>2, StoreKeeps
<1>4. ItemsChange(d, d2, k, t) /\ ListsOnly(d2)
    BY <1>1, <1>2 DEF ItemsChange, ListsOnly, dict_add, ListObj, KeyspaceOK
<1>5. Distinct(d2) /\ Adds(d, d2, e)
    BY <1>1, <1>4, PushPutsOne
<1>6. QED BY <1>1, <1>3, <1>4, <1>5 DEF Sound, ListsOnly, WrongType

\* rpoplpush and brpoplpush take the last element out and put it in again, also
\* when the source is the destination.
LEMMA PopPushMoves ==
    ASSUME NEW d, Sound(d), NEW src \in Key, NEW dst \in Key, ~Missing(d, src), NEW ret,
           NEW res, res = PopPush(d, src, dst, ret)
    PROVE  /\ Sound(res.db)
           /\ Stored(res.db) = Stored(d)
           /\ res.ret = ret
           /\ \E e \in Stored(d) :
                 e \in ReqId /\ res.val = <<e>> /\ Moved(d, res.db, src, dst, e)
<1>1. PICK s, rest, e, popped :
          /\ s = d[src].items
          /\ rest = list_rest(s, "right")
          /\ e = list_pop(s, "right")
          /\ popped = EndIfEmpty(d, src, rest, src)
    OBVIOUS
<1>2. /\ s # <<>>
      /\ Sound(popped)
      /\ e \in ReqId
      /\ Removes(d, popped, e)
    BY <1>1, PopKeepsSound
<1>3. PICK t, d2 :
          /\ t = list_insert(popped[dst].items, "left", e)
          /\ d2 = dict_add(popped, dst, ListObj(t))
    OBVIOUS
<1>4. ~WrongType(popped, dst) /\ Sound(d2) /\ Adds(popped, d2, e)
    <2>1. e \notin Stored(popped)
        BY <1>2 DEF Removes
    <2>2. QED BY <1>2, <1>3, <2>1, PushKeepsSound
<1>5. res = Result(ret, d2, <<e>>)
    BY <1>1, <1>2, <1>3, <1>4 DEF PopPush
<1>6. Stored(d2) = Stored(d) /\ e \in Stored(d)
    BY <1>2, <1>4 DEF Adds, Removes
<1>7. Moved(d, d2, src, dst, e)
    <2>1. rest = Front(s) /\ e = Last(s) /\ t = <<e>> \o popped[dst].items
        BY <1>1, <1>3 DEF list_rest, list_pop, list_insert
    <2>2. \A k \in Key : popped[k].items = IF k = src THEN rest ELSE d[k].items
        BY <1>1 DEF Sound, KeyspaceOK, EndIfEmpty, dict_add, dict_rm, ListObj, NoObj
    <2>3. \A k \in Key : d2[k].items = IF k = dst THEN t ELSE popped[k].items
        BY <1>2, <1>3 DEF Sound, KeyspaceOK, dict_add, ListObj
    <2>4. QED BY <1>1, <1>2, <2>1, <2>2, <2>3 DEF Moved
<1>8. QED BY <1>2, <1>4, <1>5, <1>6, <1>7 DEF Result

\* What lrange answers of the whole range of a list is stored in it.
LEMMA RangeIsStored ==
    ASSUME NEW d, Sound(d), NEW k \in Key
    PROVE  LET res == lrange_command(d, k, 0, -1)
           IN  /\ res.ret = "arr" /\ res.db = d
               /\ res.val \in Seq(ReqId)
               /\ \A i \in DOMAIN res.val : res.val[i] \in Stored(d)
<1>1. PICK s : s = d[k].items
    OBVIOUS
<1>2. s \in Seq(ReqId) /\ Len(s) \in Nat /\ ~WrongType(d, k)
    BY <1>1, ItemsAreElements DEF Sound, ListsOnly, WrongType
<1>3. PICK t : t = IF OutOfRange(s, 0, -1) THEN <<>> ELSE Filled(Slice(s, 0, -1))
    OBVIOUS
<1>4. lrange_command(d, k, 0, -1) = Result("arr", d, t)
    BY <1>1, <1>2, <1>3 DEF lrange_command
<1>5. CASE OutOfRange(s, 0, -1)
    <2>1. t \in Seq(ReqId) /\ DOMAIN t = {}
        BY <1>3, <1>5
    <2>2. /\ Result("arr", d, t).ret = "arr" /\ Result("arr", d, t).db = d
          /\ Result("arr", d, t).val = t
        BY DEF Result
    <2>3. QED BY <1>4, <2>1, <2>2
<1>6. CASE ~OutOfRange(s, 0, -1)
    <2>1. Slice(s, 0, -1) = SubSeq(s, 1, Len(s))
        BY <1>2 DEF Slice, FirstOffset, FromTail
    <2>2. t = Filled(s)
        BY <1>2, <1>3, <1>6, <2>1
    <2>3. \A i \in DOMAIN s : s[i] \in Stored(d)
        BY <1>1, StoredIs
    <2>4. t \in Seq(ReqId) /\ \A i \in DOMAIN t : \E j \in DOMAIN s : t[i] = s[j]
        BY <1>2, <2>2, FilledIs
    <2>5. \A i \in DOMAIN t : t[i] \in Stored(d)
        BY <2>3, <2>4
    <2>6. /\ Result("arr", d, t).ret = "arr" /\ Result("arr", d, t).db = d
          /\ Result("arr", d, t).val = t
        BY DEF Result
    <2>7. QED BY <1>4, <2>4, <2>5, <2>6
<1>7. QED BY <1>5, <1>6

\* A command leaves a sound keyspace, neither crashes nor frees twice, and
\* changes the elements as its reply tells.
LEMMA CommandMoves ==
    ASSUME MovesOnly, NEW d, Sound(d), NEW id \in ReqId, id \notin Stored(d),
           NEW r \in Request \cup {NoReq}
    PROVE  LET res == Command(d, id, r)
           IN  /\ Sound(res.db)
               /\ \/ /\ r.op = "brpoplpush"
                     /\ \/ res.ret = "blocked" /\ res.db = d
                        \/ /\ res.ret = "arr" /\ Stored(res.db) = Stored(d)
                           /\ \E e \in Stored(d) :
                                 /\ e \in ReqId /\ res.val = <<e>>
                                 /\ Moved(d, res.db, r.keys[1], r.keys[2], e)
                  \/ /\ r.op = "lrange"
                     /\ res.ret = "arr" /\ res.db = d
                     /\ res.val \in Seq(ReqId)
                     /\ \A i \in DOMAIN res.val : res.val[i] \in Stored(d)
                  \/ /\ r.op \notin Blocking \cup {"lrange"}
                     /\ res.ret \in {"fail", "nil", "int", "str"}
                     /\ Effect(r, id, d, res.db, IF res.ret = "str" THEN res.val ELSE <<>>)
<1>1. CASE ~ArgsOK(r)
    <2>1. r.op \in {"invalid", "none"}
        BY <1>1 DEF MovesOnly, NoReq
    <2>2. Command(d, id, r) = Result("fail", d, <<>>)
        BY <1>1 DEF Command
    <2>3. QED BY <2>1, <2>2 DEF Result, Blocking, Effect, Pushes, Pops
<1>2. CASE ArgsOK(r)
    <2>1. r.keys \in Seq(Key) /\ Len(r.keys) \in Nat
        BY <1>2, ConstantsAssumption DEF NoReq, ArgsOK
    <2>2. r.op \in {"brpoplpush", "rpoplpush", "lpop", "rpop", "lpush", "rpush", "lrange"}
        BY <1>2 DEF MovesOnly, ArgsOK, NoReq
    <2>3. r.keys[1] \in Key /\ (r.op \in {"brpoplpush", "rpoplpush"} => r.keys[2] \in Key)
        <3>1. Len(r.keys) = 2 \/ (Len(r.keys) = 1 /\ r.op \notin {"brpoplpush", "rpoplpush"})
            BY <1>2, <2>2 DEF ArgsOK
        <3>2. QED BY <2>1, <3>1
    <2> DEFINE k == r.keys[1]
    <2>4. CASE r.op = "brpoplpush"
        <3>1. Command(d, id, r) = brpoplpush_command(d, k, r.keys[2])
            BY <1>2, <2>4 DEF Command
        <3>2. CASE Missing(d, k)
            BY <2>4, <3>1, <3>2 DEF brpoplpush_command, Result
        <3>3. CASE ~Missing(d, k)
            <4>1. ~WrongType(d, k)
                BY <2>3 DEF Sound, ListsOnly, WrongType
            <4>2. Command(d, id, r) = PopPush(d, k, r.keys[2], "arr")
                BY <3>1, <3>3, <4>1 DEF brpoplpush_command
            <4>3. QED BY <2>3, <2>4, <3>3, <4>2, PopPushMoves
        <3>4. QED BY <3>2, <3>3
    <2>5. CASE r.op = "rpoplpush"
        <3>1. Command(d, id, r) = rpoplpush_command(d, k, r.keys[2])
            BY <1>2, <2>5 DEF Command
        <3>2. CASE Missing(d, k)
            BY <2>5, <3>1, <3>2
               DEF rpoplpush_command, Result, Blocking, Effect, Pushes, Pops
        <3>3. CASE ~Missing(d, k)
            <4>1. ~WrongType(d, k)
                BY <2>3 DEF Sound, ListsOnly, WrongType
            <4>2. Command(d, id, r) = PopPush(d, k, r.keys[2], "str")
                BY <3>1, <3>3, <4>1 DEF rpoplpush_command
            <4>3. /\ Sound(PopPush(d, k, r.keys[2], "str").db)
                  /\ Stored(PopPush(d, k, r.keys[2], "str").db) = Stored(d)
                  /\ PopPush(d, k, r.keys[2], "str").ret = "str"
                BY <2>3, <2>5, <3>3, PopPushMoves
            <4>4. QED BY <2>5, <4>2, <4>3 DEF Blocking, Effect, Pushes, Pops
        <3>4. QED BY <3>2, <3>3
    <2>6. CASE r.op \in Pops
        <3>1. PICK side : Command(d, id, r) = lpoprpop_command(d, side, k)
            BY <1>2, <2>6 DEF Command, Pops
        <3>2. r.op \notin Blocking \cup {"lrange"}
            BY <2>6 DEF Pops, Blocking
        <3>3. CASE Missing(d, k)
            <4>1. Command(d, id, r) = Result("nil", d, <<>>)
                BY <3>1, <3>3 DEF lpoprpop_command
            <4>2. QED BY <2>6, <3>2, <4>1 DEF Result, Effect
        <3>4. CASE ~Missing(d, k)
            <4>1. PICK rest, e, d2 :
                      /\ rest = list_rest(d[k].items, side)
                      /\ e = list_pop(d[k].items, side)
                      /\ d2 = EndIfEmpty(d, k, rest, k)
                OBVIOUS
            <4>2. k \in Key
                BY <2>3
            <4>3. /\ ~WrongType(d, k)
                  /\ d[k].items # <<>>
                  /\ Sound(d2)
                  /\ Removes(d, d2, e)
                BY <2>3, <3>4, <4>1, <4>2, PopKeepsSound
            <4>4. Command(d, id, r) = Result("str", d2, <<e>>)
                BY <3>1, <3>4, <4>1, <4>2, <4>3 DEF lpoprpop_command
            <4>5. QED BY <2>6, <3>2, <4>3, <4>4 DEF Result, Effect
        <3>5. QED BY <3>3, <3>4
    <2>7. CASE r.op \in Pushes
        <3>1. PICK side : Command(d, id, r) = lpushrpush_command(d, side, k, <<id>>)
            BY <1>2, <2>7 DEF Command, Pushes
        <3>2. r.op \notin Blocking \cup {"lrange"}
            BY <2>7 DEF Pushes, Blocking
        <3>3. PICK t : t = list_insert(d[k].items, side, id)
            OBVIOUS
        <3>4. d[k].items \in Seq(ReqId)
            BY <2>3, ItemsAreElements DEF Sound
        <3>5. list_insert_all(d[k].items, side, <<id>>) = t
            BY <3>3, <3>4, InsertKeeps
        <3>6. PICK d2 : d2 = dict_add(d, k, ListObj(t))
            OBVIOUS
        <3>7. ~WrongType(d, k) /\ Sound(d2) /\ Adds(d, d2, id)
            BY <2>3, <3>3, <3>6, PushKeepsSound
        <3>8. Command(d, id, r) = Result("int", d2, Len(t))
            BY <3>1, <3>5, <3>6, <3>7 DEF lpushrpush_command
        <3>9. QED BY <2>7, <3>2, <3>7, <3>8 DEF Result, Effect
    <2>8. CASE r.op = "lrange"
        <3>1. Command(d, id, r) = lrange_command(d, k, 0, -1)
            BY <1>2, <2>8 DEF Command
        <3>2. QED BY <2>3, <2>8, <3>1, RangeIsStored
    <2>9. QED BY <2>2, <2>4, <2>5, <2>6, <2>7, <2>8 DEF Pushes, Pops
<1>3. QED BY <1>1, <1>2

-----------------------------------------------------------------------------
(* What an attempt at a request does to the elements *)

Fresh(a, d) == \A i \in DOMAIN a : ~Dangling(a[i], d)
Contents(a) == [i \in DOMAIN a |-> a[i].what]

\* An array without stale cells is replied as it is.
LEMMA WholeArray ==
    ASSUME NEW a, NEW d, NEW current, Fresh(a, d), NEW out \in create_arr_reply(a, d, current)
    PROVE  /\ out.ret = "reply" /\ out.db = d /\ out.arr = FreeOwned(a)
           /\ out.reply = Reply("arr", Contents(a))
BY DEF create_arr_reply, Outcome, Fresh, Contents

\* No cell of a list entry that is still in its list is stale.
LEMMA EntryIsFresh ==
    ASSUME NEW d, NEW e \in Stored(d)
    PROVE  ~Dangling(EntryCell(e), d)
BY DEF Dangling, EntryCell, Cell

\* The reply of brpoplpush that did not hang.
LEMMA MovedReply ==
    ASSUME NEW d, NEW e \in Stored(d), NEW current, NEW a, a = <<EntryCell(e)>>,
           NEW out \in create_arr_reply(a, d, current)
    PROVE  /\ out.ret = "reply" /\ out.db = d /\ out.arr = a
           /\ out.reply = Reply("arr", <<e>>)
<1>1. PICK cell : cell = EntryCell(e)
    OBVIOUS
<1>2. cell.what = e /\ cell.mem = "entry" /\ ~Dangling(cell, d)
    BY <1>1, EntryIsFresh DEF EntryCell, Cell
<1>3. a = <<cell>>
    BY <1>1
<1>4. Fresh(a, d)
    BY <1>2, <1>3 DEF Fresh
<1>5. FreeOwned(a) = a
    BY <1>2, <1>3 DEF FreeOwned
<1>6. Contents(a) = <<e>>
    BY <1>2, <1>3 DEF Contents
<1>7. QED BY <1>4, <1>5, <1>6, WholeArray

\* The reply of a job that is done, first being the cell its end is told by.
LEMMA LateReply ==
    ASSUME NEW d, NEW first, ~Dangling(first, d), NEW current,
           NEW a, a = Append(<<first>>, TimeCell), NEW out \in create_arr_reply(a, d, current)
    PROVE  out.ret = "reply" /\ out.reply = Reply("arr", <<first.what, Time>>)
<1>1. TimeCell.what = Time /\ ~Dangling(TimeCell, d)
    BY DEF TimeCell, Cell, Dangling
<1>2. <<first>> \in Seq({first, TimeCell}) /\ Len(<<first>>) = 1 /\ <<first>>[1] = first
    OBVIOUS
<1>3. DOMAIN a = 1..2 /\ a[1] = first /\ a[2] = TimeCell
    BY <1>2
<1>4. Fresh(a, d)
    BY <1>1, <1>3 DEF Fresh
<1>5. Contents(a) = <<first.what, Time>>
    BY <1>1, <1>3 DEF Contents
<1>6. QED BY <1>4, <1>5, WholeArray

\* out is what may come of an attempt at r in keyspace d: it blocks and changes
\* nothing, or is replied, a move with the element moved.
Attempted(r, id, d, out) ==
    /\ Sound(out.db)
    /\ \/ out.ret = "blocked" /\ out.db = d
       \/ /\ out.ret = "reply"
          /\ Effect(r, id, d, out.db, out.reply.val)
          /\ r.op \in Blocking =>
                \E e \in Stored(out.db) :
                    /\ e \in ReqId
                    /\ out.arr = <<EntryCell(e)>>
                    /\ out.reply = Reply("arr", <<e>>)
                    /\ Moved(d, out.db, r.keys[1], r.keys[2], e)

\* Nothing else comes of one; none brings the server down.
LEMMA AttemptMoves ==
    ASSUME MovesOnly, NEW d, Sound(d), NEW id \in ReqId, id \notin Stored(d),
           NEW a, asked[id] \in Request \cup {NoReq}, NEW out \in process_request(id, d, a)
    PROVE  Attempted(asked[id], id, d, out)
<1>1. PICK r : r = asked[id]
    OBVIOUS
<1>2. PICK res : res = Command(d, id, r)
    OBVIOUS
<1>3. PICK a2 : a2 = ArrayAfter(r, res, a)
    OBVIOUS
<1>4. /\ Sound(res.db)
      /\ \/ /\ r.op = "brpoplpush"
            /\ \/ res.ret = "blocked" /\ res.db = d
               \/ /\ res.ret = "arr" /\ Stored(res.db) = Stored(d)
                  /\ \E e \in Stored(d) :
                        /\ e \in ReqId /\ res.val = <<e>>
                        /\ Moved(d, res.db, r.keys[1], r.keys[2], e)
         \/ /\ r.op = "lrange"
            /\ res.ret = "arr" /\ res.db = d
            /\ res.val \in Seq(ReqId)
            /\ \A i \in DOMAIN res.val : res.val[i] \in Stored(d)
         \/ /\ r.op \notin Blocking \cup {"lrange"}
            /\ res.ret \in {"fail", "nil", "int", "str"}
            /\ Effect(r, id, d, res.db, IF res.ret = "str" THEN res.val ELSE <<>>)
    BY <1>1, <1>2, CommandMoves
<1>5. process_request(id, d, a) =
          IF res.ret \in {"crash", "doublefree"} THEN {Down(res.db, a)}
          ELSE IF res.ret = "blocked" THEN {Blocked(res.db, a2)}
          ELSE IF r.op \in Blocking \/ res.ret = "arr"
          THEN create_arr_reply(a2, res.db, OwnReplyOf(res))
          ELSE {Outcome("reply", res.db, a2, OwnReplyOf(res))}
    BY <1>1, <1>2, <1>3 DEF process_request
<1>6. CASE r.op = "brpoplpush" /\ res.ret = "blocked" /\ res.db = d
    BY <1>1, <1>4, <1>5, <1>6 DEF Attempted, Blocked, Outcome
<1>7. CASE /\ r.op = "brpoplpush"
           /\ res.ret = "arr" /\ Stored(res.db) = Stored(d)
           /\ \E e \in Stored(d) :
                 /\ e \in ReqId /\ res.val = <<e>>
                 /\ Moved(d, res.db, r.keys[1], r.keys[2], e)
    <2>1. PICK e \in Stored(d) :
              e \in ReqId /\ res.val = <<e>> /\ Moved(d, res.db, r.keys[1], r.keys[2], e)
        BY <1>7
    <2>2. a2 = <<EntryCell(e)>>
        BY <1>3, <1>7, <2>1 DEF ArrayAfter, Refill
    <2>3. out \in create_arr_reply(a2, res.db, OwnReplyOf(res))
        BY <1>5, <1>7
    <2>4. e \in Stored(res.db)
        BY <1>7
    <2>5. /\ out.ret = "reply" /\ out.db = res.db
          /\ out.arr = <<EntryCell(e)>>
          /\ out.reply = Reply("arr", <<e>>)
        BY <2>2, <2>3, <2>4, MovedReply
    <2>6. Effect(r, id, d, out.db, out.reply.val)
        BY <1>7, <2>5 DEF Effect, Pushes, Pops
    <2>7. QED BY <1>1, <1>4, <2>1, <2>4, <2>5, <2>6 DEF Attempted
<1>8. CASE /\ r.op = "lrange"
           /\ res.ret = "arr" /\ res.db = d
           /\ res.val \in Seq(ReqId)
           /\ \A i \in DOMAIN res.val : res.val[i] \in Stored(d)
    <2>1. a2 = [i \in DOMAIN res.val |-> EntryCell(res.val[i])]
        BY <1>3, <1>8 DEF ArrayAfter, Refill
    <2>2. Fresh(a2, d)
        BY <1>8, <2>1, EntryIsFresh DEF Fresh
    <2>3. out \in create_arr_reply(a2, d, OwnReplyOf(res))
        BY <1>5, <1>8
    <2>4. out.ret = "reply" /\ out.db = d
        BY <2>2, <2>3, WholeArray
    <2>5. QED BY <1>1, <1>4, <1>8, <2>4 DEF Attempted, Effect, Pushes, Pops, Blocking
<1>9. CASE /\ r.op \notin Blocking \cup {"lrange"}
           /\ res.ret \in {"fail", "nil", "int", "str"}
           /\ Effect(r, id, d, res.db, IF res.ret = "str" THEN res.val ELSE <<>>)
    <2>1. out = Outcome("reply", res.db, a2, OwnReplyOf(res))
        BY <1>5, <1>9
    <2>2. /\ out.ret = "reply" /\ out.db = res.db
          /\ out.reply.val = IF res.ret = "str" THEN res.val ELSE <<>>
        BY <2>1 DEF Outcome, OwnReplyOf, Reply
    <2>3. QED BY <1>1, <1>4, <1>9, <2>2 DEF Attempted
<1>10. QED BY <1>4, <1>6, <1>7, <1>8, <1>9

-----------------------------------------------------------------------------
(* The invariant *)

\* Request x is a pop that has been answered with e.
Takes(x, e) ==
    /\ asked[x].op \in Pops
    /\ \E i \in DOMAIN replies[x] : e \in ToSet(replies[x][i].val)

Pushed(e) == asked[e].op \in Pushes /\ replies[e] # <<>>

\* An element is stored, or has been taken once, from the time its push is answered.
Accounted ==
    /\ \A e \in ReqId : Pushed(e) <=> e \in Stored(db) \/ \E x \in ReqId : Takes(x, e)
    /\ \A e, x \in ReqId : ~(e \in Stored(db) /\ Takes(x, e))
    /\ \A e, x, y \in ReqId : Takes(x, e) /\ Takes(y, e) => x = y

MoveInv == WalkInv /\ Sound(db) /\ Accounted

\* An element that is stored is one whose push has been answered.
LEMMA NotYetStored ==
    ASSUME MoveInv, NEW id \in ReqId, replies[id] = <<>>
    PROVE  id \notin Stored(db)
BY DEF MoveInv, Accounted, Pushed

\* A job is a brpoplpush that has not been answered.
LEMMA JobMoves ==
    ASSUME MovesOnly, MoveInv, walk <= Len(pending)
    PROVE  LET id == pending[walk].id
           IN  /\ id \in ReqId /\ pending[walk].fd \in Fd
               /\ asked[id].op = "brpoplpush"
               /\ asked[id] \in Request \cup {NoReq}
               /\ replies[id] = <<>>
<1>1. TypeOK /\ AnsweredOnce /\ JobsBlock
    BY DEF MoveInv, WalkInv, AnswerInv
<1>2. walk \in 1..Len(pending) /\ walk \in DOMAIN pending
    BY <1>1 DEF TypeOK
<1>3. pending[walk].id \in ReqId /\ pending[walk].fd \in Fd
    BY <1>1, <1>2, JobIs
<1>4. pending[walk].id \in Hanging
    BY <1>2, <1>3 DEF Hanging
<1>5. asked[pending[walk].id].op \in Blocking /\ ArgsOK(asked[pending[walk].id])
    BY <1>1, <1>2 DEF JobsBlock
<1>6. asked[pending[walk].id] \in Request \cup {NoReq}
    BY <1>1, <1>3 DEF TypeOK
<1>7. asked[pending[walk].id].op = "brpoplpush"
    BY <1>5, <1>6 DEF MovesOnly, Blocking, NoReq
<1>8. QED BY <1>1, <1>3, <1>4, <1>6, <1>7 DEF AnsweredOnce

\* HonestAnswer, of the parts of an answer.
Told(r, type, val, hung, d, d2) ==
    /\ type = "arr"
    /\ \/ hung /\ r.timed /\ val = <<Nil, Time>> /\ d2 = d
       \/ \E e \in ReqId : /\ val = IF hung THEN <<e, Time>> ELSE <<e>>
                           /\ Moved(d, d2, r.keys[1], r.keys[2], e)

\* An answer that tells what happened to the elements keeps them accounted for.
LEMMA AnswerKeeps ==
    ASSUME MovesOnly, MoveInv, NEW f \in Fd, NEW id \in ReqId, NEW reply,
           replies[id] = <<>>, send_reply(f, id, reply), UNCHANGED asked,
           Effect(asked[id], id, db, db', reply.val),
           asked[id].op = "brpoplpush" =>
               Told(asked[id], reply.type, reply.val, pc = "jobs", db, db')
    PROVE  Accounted' /\ HonestStep
<1>1. TypeOK /\ Accounted
    BY DEF MoveInv, WalkInv, AnswerInv
<1>2. PICK w : /\ replies' = [replies EXCEPT ![id] = Append(@, w)]
               /\ w.hung = (pc = "jobs") /\ w.type = reply.type /\ w.val = reply.val
    <2> DEFINE c == conn[f]
               arrives == c # NoConn /\ peer[c] = "open"
               written == [to |-> IF arrives THEN c ELSE NoConn, hung |-> pc = "jobs",
                           type |-> reply.type, val |-> reply.val]
    <2>1. replies' = [replies EXCEPT ![id] = Append(@, written)]
        BY DEF send_reply
    <2>2. /\ written.hung = (pc = "jobs")
          /\ written.type = reply.type
          /\ written.val = reply.val
        OBVIOUS
    <2> HIDE DEF written
    <2>3. QED BY <2>1, <2>2
<1>3. replies'[id] = <<w>> /\ \A x \in ReqId \ {id} : replies'[x] = replies[x]
    BY <1>1, <1>2 DEF TypeOK
<1>4. DOMAIN replies'[id] = {1} /\ replies'[id][1] = w /\ replies'[id] # <<>>
    BY <1>3
<1>5. \A x \in ReqId \ {id} : \A e : Takes(x, e)' <=> Takes(x, e)
    BY <1>3 DEF Takes
<1>6. \A e : Takes(id, e)' <=> asked[id].op \in Pops /\ e \in ToSet(reply.val)
    BY <1>2, <1>4 DEF Takes
<1>7. \A e \in ReqId : Pushed(e)' <=> Pushed(e) \/ (e = id /\ asked[id].op \in Pushes)
    BY <1>3, <1>4 DEF Pushed
<1>8. ~Pushed(id) /\ \A e : ~Takes(id, e)
    BY DEF Pushed, Takes
<1>9. Accounted'
    <2>1. CASE asked[id].op \in Pushes
        <3>1. asked[id].op \notin Pops
            BY <2>1 DEF Pushes, Pops
        <3>2. \A e : e \in Stored(db') <=> e \in Stored(db) \/ e = id
            BY <2>1, <3>1 DEF Effect, Adds
        <3>3. \A x, e \in ReqId : Takes(x, e)' <=> Takes(x, e)
            BY <1>5, <1>6, <1>8, <3>1
        <3>4. QED BY <1>1, <1>7, <1>8, <2>1, <3>2, <3>3 DEF Accounted
    <2>2. CASE Stored(db') = Stored(db) /\ asked[id].op \notin Pushes
               /\ (asked[id].op \in Pops => reply.val = <<>>)
        <3>1. \A x, e \in ReqId : Takes(x, e)' <=> Takes(x, e)
            BY <1>5, <1>6, <1>8, <2>2 DEF ToSet
        <3>2. QED BY <1>1, <1>7, <2>2, <3>1 DEF Accounted
    <2>3. CASE asked[id].op \in Pops /\ \E e : reply.val = <<e>> /\ Removes(db, db', e)
        <3>1. PICK out : reply.val = <<out>> /\ Removes(db, db', out)
            BY <2>3
        <3>2. asked[id].op \notin Pushes
            BY <2>3 DEF Pushes, Pops
        <3>3. \A e : Takes(id, e)' <=> e = out
            BY <1>6, <2>3, <3>1 DEF ToSet
        <3>4. out \in Stored(db) /\ \A e : e \in Stored(db') <=> e \in Stored(db) /\ e # out
            BY <3>1 DEF Removes
        <3>5. \A e \in ReqId : Pushed(e)' <=> Pushed(e)
            BY <1>7, <3>2
        <3>6. QED BY <1>1, <1>5, <1>8, <3>3, <3>4, <3>5 DEF Accounted
    <2>4. QED BY <2>1, <2>2, <2>3 DEF Effect, Pushes, Pops
<1>10. HonestStep
    <2> SUFFICES ASSUME NEW x \in ReqId, asked[x].op = "brpoplpush", replies'[x] # replies[x]
                 PROVE  HonestAnswer(asked[x], Last(replies'[x]), db, db')
        BY DEF HonestStep
    <2>1. x = id
        BY <1>3
    <2>2. Last(replies'[x]) = w
        BY <1>3, <2>1 DEF Last
    <2>3. Told(asked[x], w.type, w.val, w.hung, db, db')
        BY <1>2, <2>1
    <2>4. QED BY <2>2, <2>3 DEF HonestAnswer, Told
<1>11. QED BY <1>9, <1>10

\* A step that answers nothing and leaves the keyspace as it is keeps them, too.
LEMMA NoAnswerKeeps ==
    ASSUME MoveInv, UNCHANGED <<db, replies>>,
           \A x \in ReqId : asked'[x] = asked[x] \/ replies[x] = <<>>
    PROVE  Sound(db') /\ Accounted' /\ HonestStep
<1>1. Sound(db) /\ Accounted
    BY DEF MoveInv
<1>2. \A x \in ReqId : replies[x] = <<>> => DOMAIN replies[x] = {}
    OBVIOUS
<1>3. \A x \in ReqId : \A e : Takes(x, e)' <=> Takes(x, e)
    BY <1>2 DEF Takes
<1>4. \A e \in ReqId : Pushed(e)' <=> Pushed(e)
    BY DEF Pushed
<1>5. Stored(db') = Stored(db) /\ Sound(db')
    BY <1>1
<1>6. Accounted'
    BY <1>1, <1>3, <1>4, <1>5 DEF Accounted
<1>7. HonestStep
    BY DEF HonestStep
<1>8. QED BY <1>5, <1>6, <1>7

\* A request that is read blocks and changes nothing, or is answered.
LEMMA ReadAttempt ==
    ASSUME MovesOnly, MoveInv, NEW f \in Fd, read_request(f)
    PROVE  \/ UNCHANGED <<db, replies, pc>>
           \/ \E id \in ReqId : \E reply :
                 /\ replies[id] = <<>>
                 /\ send_reply(f, id, reply)
                 /\ Sound(db')
                 /\ Effect(asked[id], id, db, db', reply.val)
                 /\ asked[id].op = "brpoplpush" =>
                       Told(asked[id], reply.type, reply.val, pc = "jobs", db, db')
                 /\ pc' = IF SigPipe(f) THEN "down" ELSE pc
<1>1. TypeOK /\ AnsweredOnce /\ Sound(db)
    BY DEF MoveInv, WalkInv, AnswerInv
<1>2. PICK c : c = conn[f]
    OBVIOUS
<1>3. c \in Client /\ inq[c] \in Seq(ReqId) /\ inq[c] # <<>>
    BY <1>1, <1>2 DEF TypeOK, read_request
<1>4. PICK id : id = Head(inq[c])
    OBVIOUS
<1>5. id \in ReqId /\ id \in Unread
    <2>1. 1 \in DOMAIN inq[c] /\ id = inq[c][1] /\ id \in ReqId
        BY <1>3, <1>4
    <2>2. QED BY <1>3, <2>1 DEF Unread
<1>6. replies[id] = <<>> /\ id \notin Stored(db) /\ asked[id] \in Request \cup {NoReq}
    BY <1>1, <1>5, NotYetStored DEF AnsweredOnce, TypeOK
<1>7. PICK out \in process_request(id, db, arr) :
          /\ db' = out.db
          /\ \/ /\ out.ret = "reply"
                /\ send_reply(f, id, out.reply)
                /\ pc' = IF SigPipe(f) THEN "down" ELSE pc
             \/ out.ret = "blocked" /\ UNCHANGED <<queueVars, pc>>
             \/ out.ret = "down"
    BY <1>2, <1>4 DEF read_request
<1>8. /\ Sound(out.db)
      /\ \/ out.ret = "blocked" /\ out.db = db
         \/ /\ out.ret = "reply"
            /\ Effect(asked[id], id, db, out.db, out.reply.val)
            /\ asked[id].op = "brpoplpush" =>
                  \E e \in ReqId :
                     /\ out.reply = Reply("arr", <<e>>)
                     /\ Moved(db, out.db, asked[id].keys[1], asked[id].keys[2], e)
    <2>1. Attempted(asked[id], id, db, out)
        BY <1>1, <1>5, <1>6, AttemptMoves
    <2>2. QED BY <2>1 DEF Attempted, Blocking
<1>9. CASE out.ret = "blocked"
    BY <1>7, <1>8, <1>9 DEF queueVars
<1>10. CASE out.ret = "reply"
    <2>1. PICK reply : reply = out.reply
        OBVIOUS
    <2>2. send_reply(f, id, reply) /\ pc' = IF SigPipe(f) THEN "down" ELSE pc
        BY <1>7, <1>10, <2>1
    <2>3. Sound(db') /\ Effect(asked[id], id, db, db', reply.val)
        BY <1>7, <1>8, <1>10, <2>1
    <2>4. pc = "events"
        BY DEF read_request, Handling
    <2>5. asked[id].op = "brpoplpush" =>
              Told(asked[id], reply.type, reply.val, pc = "jobs", db, db')
        <3>1. SUFFICES ASSUME asked[id].op = "brpoplpush"
                       PROVE  Told(asked[id], reply.type, reply.val, FALSE, db, db')
            BY <2>4
        <3>2. PICK e \in ReqId :
                  /\ reply = Reply("arr", <<e>>)
                  /\ Moved(db, db', asked[id].keys[1], asked[id].keys[2], e)
            BY <1>7, <1>8, <1>10, <2>1, <3>1
        <3>3. reply.type = "arr" /\ reply.val = <<e>>
            BY <3>2 DEF Reply
        <3>4. QED BY <3>2, <3>3 DEF Told
    <2>6. QED BY <1>5, <1>6, <2>2, <2>3, <2>5
<1>11. QED BY <1>8, <1>9, <1>10

\* A job hangs at descriptor f.
HangsAt(f) == \E i \in DOMAIN pending : pending[i].fd = f

\* The step writes to such a descriptor.
Writes == \E f \in Fd : HangsAt(f) /\ pc' = IF SigPipe(f) THEN "down" ELSE pc

\* A job that is done is answered with the cell its end is told by and the
\* waiting time.
LEMMA FinishMoves ==
    ASSUME MovesOnly, MoveInv, pc = "jobs", walk <= Len(pending), UNCHANGED asked,
           NEW d, Sound(d), Stored(d) = Stored(db),
           NEW first, ~Dangling(first, d),
           Told(asked[pending[walk].id], "arr", <<first.what, Time>>, TRUE, db, d),
           NEW a, a = <<first>>, NEW current, FinishJob(d, a, current)
    PROVE  Sound(db') /\ Accounted' /\ HonestStep /\ Writes
<1>1. PICK id, f : id = pending[walk].id /\ f = pending[walk].fd
    OBVIOUS
<1>2. /\ id \in ReqId /\ f \in Fd
      /\ asked[id].op = "brpoplpush"
      /\ replies[id] = <<>>
    BY <1>1, JobMoves
<1>3. PICK b : b = Filled(Append(a, TimeCell))
    OBVIOUS
<1>4. PICK out \in create_arr_reply(b, d, current) :
          /\ db' = d
          /\ \/ /\ out.ret = "reply"
                /\ send_reply(f, id, out.reply)
                /\ pc' = IF SigPipe(f) THEN "down" ELSE pc
             \/ out.ret = "down"
    BY <1>1, <1>3 DEF FinishJob
<1>5. b = Append(<<first>>, TimeCell)
    <2>1. PICK t : t = Append(a, TimeCell)
        OBVIOUS
    <2>2. t \in Seq({first, TimeCell}) /\ Len(t) = 2 /\ 2 < ArrCap
        BY <2>1, ConstantsAssumption
    <2>3. Filled(t) = t
        BY <2>2, FilledIs
    <2>4. QED BY <1>3, <2>1, <2>3
<1>6. out.ret = "reply" /\ out.reply = Reply("arr", <<first.what, Time>>)
    BY <1>4, <1>5, LateReply
<1>7. PICK reply : reply = Reply("arr", <<first.what, Time>>)
    OBVIOUS
<1>8. reply.type = "arr" /\ reply.val = <<first.what, Time>>
    BY <1>7 DEF Reply
<1>9. Told(asked[id], reply.type, reply.val, pc = "jobs", db, db')
    BY <1>1, <1>4, <1>8
<1>10. Effect(asked[id], id, db, db', reply.val)
    BY <1>2, <1>4 DEF Effect, Pushes, Pops
<1>11. send_reply(f, id, reply)
    BY <1>4, <1>6, <1>7
<1>12. Accounted' /\ HonestStep
    BY <1>2, <1>9, <1>10, <1>11, AnswerKeeps
<1>13. walk \in DOMAIN pending
    BY DEF MoveInv, WalkInv, AnswerInv, TypeOK
<1>14. HangsAt(f)
    BY <1>1, <1>13 DEF HangsAt
<1>15. Writes
    BY <1>2, <1>4, <1>6, <1>14 DEF Writes
<1>16. QED BY <1>4, <1>12, <1>15

\* A visit to a job leaves everything as it is, or finishes the job.
LEMMA VisitMoves ==
    ASSUME MovesOnly, MoveInv, job_timeout \/ job_attempt
    PROVE  Sound(db') /\ Accounted' /\ HonestStep /\ (pc' = pc \/ Writes)
<1>1. TypeOK /\ Sound(db)
    BY DEF MoveInv, WalkInv, AnswerInv
<1>2. walk <= Len(pending) /\ pc = "jobs" /\ UNCHANGED asked
    BY DEF job_timeout, job_attempt, clientVars
<1>3. PICK id : id = pending[walk].id
    OBVIOUS
<1>4. /\ id \in ReqId
      /\ asked[id].op = "brpoplpush"
      /\ asked[id] \in Request \cup {NoReq}
      /\ replies[id] = <<>>
    BY <1>2, <1>3, JobMoves
<1>5. CASE job_timeout
    <2>1. FinishJob(db, <<NilCell>>, Reply("none", <<>>)) /\ asked[id].timed
        <3>1. HasTimeout(id) /\ FinishJob(db, <<NilCell>>, Reply("none", <<>>))
            BY <1>3, <1>5 DEF job_timeout, Refill
        <3>2. QED BY <3>1 DEF HasTimeout
    <2>2. ~Dangling(NilCell, db) /\ NilCell.what = Nil
        BY DEF NilCell, Cell, Dangling
    <2>3. PICK first : first = NilCell
        OBVIOUS
    <2>4. Told(asked[id], "arr", <<first.what, Time>>, TRUE, db, db)
        BY <2>1, <2>2, <2>3 DEF Told
    <2>5. QED BY <1>1, <1>2, <1>3, <2>1, <2>2, <2>3, <2>4, FinishMoves
<1>6. CASE job_attempt
    <2>1. PICK out \in process_request(id, db, arr) :
              \/ out.ret = "reply" /\ FinishJob(out.db, out.arr, out.reply)
              \/ out.ret = "blocked" /\ db' = out.db /\ UNCHANGED <<queueVars, pc>>
              \/ out.ret = "down"
        BY <1>3, <1>6 DEF job_attempt
    <2>2. id \notin Stored(db)
        BY <1>4, NotYetStored
    <2>3. /\ Sound(out.db)
          /\ \/ out.ret = "blocked" /\ out.db = db
             \/ /\ out.ret = "reply"
                /\ Effect(asked[id], id, db, out.db, out.reply.val)
                /\ \E e \in Stored(out.db) :
                      /\ e \in ReqId
                      /\ out.arr = <<EntryCell(e)>>
                      /\ Moved(db, out.db, asked[id].keys[1], asked[id].keys[2], e)
        <3>1. Attempted(asked[id], id, db, out)
            BY <1>1, <1>4, <2>2, AttemptMoves
        <3>2. QED BY <1>4, <3>1 DEF Attempted, Blocking
    <2>4. CASE out.ret = "blocked"
        <3>1. UNCHANGED <<db, replies, asked, pc>>
            BY <1>2, <2>1, <2>3, <2>4 DEF queueVars
        <3>2. QED BY <3>1, NoAnswerKeeps
    <2>5. CASE out.ret = "reply"
        <3>1. PICK e \in Stored(out.db) :
                  /\ e \in ReqId
                  /\ out.arr = <<EntryCell(e)>>
                  /\ Moved(db, out.db, asked[id].keys[1], asked[id].keys[2], e)
            BY <2>3, <2>5
        <3>2. ~Dangling(EntryCell(e), out.db) /\ EntryCell(e).what = e
            BY <3>1, EntryIsFresh DEF EntryCell, Cell
        <3>3. Stored(out.db) = Stored(db)
            BY <1>4, <2>3, <2>5 DEF Effect, Pushes, Pops
        <3>4. PICK d, a, first : d = out.db /\ a = out.arr /\ first = EntryCell(e)
            OBVIOUS
        <3>5. FinishJob(d, a, out.reply) /\ a = <<first>>
            BY <2>1, <2>5, <3>1, <3>4
        <3>6. Told(asked[id], "arr", <<first.what, Time>>, TRUE, db, d)
            BY <3>1, <3>2, <3>4 DEF Told
        <3>7. Sound(d) /\ Stored(d) = Stored(db) /\ ~Dangling(first, d)
            BY <2>3, <3>2, <3>3, <3>4
        <3>8. QED BY <1>2, <1>3, <3>5, <3>6, <3>7, FinishMoves
    <2>6. QED BY <2>3, <2>4, <2>5
<1>7. QED BY <1>5, <1>6

\* The invariant behind ElementAccounted and HonestReply is inductive, and no
\* step from it gives an answer that is not honest.
LEMMA MoveKept ==
    ASSUME MovesOnly
    PROVE  MoveInv /\ [Next]_vars => MoveInv' /\ HonestStep
<1> SUFFICES ASSUME MoveInv, [Next]_vars
             PROVE  Sound(db') /\ Accounted' /\ HonestStep
    BY WalkKept DEF MoveInv
<1>1. CASE UNCHANGED <<db, replies, asked>>
    BY <1>1, NoAnswerKeeps
<1>2. CASE UNCHANGED vars
    BY <1>1, <1>2 DEF vars
<1>3. CASE Clients
    <2>1. ASSUME NEW c \in Client, NEW r \in Request, send_request(c, r)
          PROVE  Sound(db') /\ Accounted' /\ HonestStep
        <3>1. TypeOK /\ IdsSent
            BY DEF MoveInv, WalkInv, AnswerInv
        <3>2. PICK id : id = <<c, sent[c] + 1>>
            OBVIOUS
        <3>3. UNCHANGED <<db, replies>> /\ asked' = [asked EXCEPT ![id] = r]
            BY <2>1, <3>2 DEF send_request, queueVars, dataVars
        <3>4. sent[c] \in Int /\ ~(sent[c] + 1 <= sent[c])
            BY <3>1, ConstantsAssumption DEF TypeOK
        <3>5. id \in ReqId => replies[id] = <<>>
            BY <3>1, <3>2, <3>4 DEF IdsSent
        <3>6. \A x \in ReqId : asked'[x] = asked[x] \/ replies[x] = <<>>
            BY <3>1, <3>3, <3>5 DEF TypeOK
        <3>7. QED BY <3>3, <3>6, NoAnswerKeeps
    <2>2. QED BY <1>1, <1>3, <2>1
              DEF Clients, connect_server, read_reply, client_exit, queueVars, dataVars
<1>4. CASE Server
    <2>1. CASE epoll_wait \/ accept_connection \/ events_done \/ jobs_done
        BY <1>1, <2>1 DEF epoll_wait, accept_connection, events_done, jobs_done,
                          clientVars, queueVars, dataVars
    <2>2. ASSUME NEW f \in Fd, read_request(f)
          PROVE  Sound(db') /\ Accounted' /\ HonestStep
        <3>1. UNCHANGED asked
            BY <2>2 DEF read_request, clientVars
        <3>2. CASE UNCHANGED <<db, replies>>
            BY <1>1, <3>1, <3>2
        <3>3. CASE \E id \in ReqId : \E reply :
                      /\ replies[id] = <<>>
                      /\ send_reply(f, id, reply)
                      /\ Sound(db')
                      /\ Effect(asked[id], id, db, db', reply.val)
                      /\ asked[id].op = "brpoplpush" =>
                            Told(asked[id], reply.type, reply.val, pc = "jobs", db, db')
            BY <3>1, <3>3, AnswerKeeps
        <3>4. QED BY <2>2, <3>2, <3>3, ReadAttempt
    <2>3. ASSUME NEW f \in Fd, read_fails(f) \/ disconnected(f)
          PROVE  Sound(db') /\ Accounted' /\ HonestStep
        BY <1>1, <2>3 DEF read_fails, disconnected, clientVars, queueVars, dataVars
    <2>4. CASE job_timeout \/ job_attempt
        BY <2>4, VisitMoves
    <2>5. QED BY <1>4, <2>1, <2>2, <2>3, <2>4 DEF Server, process_in_data
<1>5. QED BY <1>2, <1>3, <1>4 DEF Next

\* It holds before main_loop.
LEMMA InitMove == Init => MoveInv
<1> SUFFICES ASSUME Init
             PROVE  MoveInv
    OBVIOUS
<1>1. /\ pending = <<>>
      /\ \A k \in Key : db[k] = NoObj
      /\ \A x \in ReqId : replies[x] = <<>>
    BY DEF Init
<1>2. WalkInv /\ KeyspaceOK(db)
    BY <1>1, InitAnswers DEF WalkInv, JobsBlock, WalkedPast, AnswerInv, TypeOK, Init
<1>3. \A k \in Key : DOMAIN db[k].items = {} /\ db[k].type = "none"
    BY <1>1 DEF NoObj
<1>4. Sound(db) /\ \A e : e \notin Stored(db)
    BY <1>2, <1>3, StoredIs DEF Sound, ListsOnly, Distinct
<1>5. \A x \in ReqId : DOMAIN replies[x] = {}
    BY <1>1
<1>6. Accounted
    BY <1>1, <1>4, <1>5 DEF Accounted, Pushed, Takes
<1>7. QED BY <1>2, <1>4, <1>6 DEF MoveInv

-----------------------------------------------------------------------------
(* The elements are accounted for *)

\* The places and the takers that ElementAccounted counts.
LEMMA PlacesAre ==
    ASSUME Distinct(db), NEW e
    PROVE  /\ e \notin Stored(db) => Places(e) = {}
           /\ e \in Stored(db) => \E p : Places(e) = {p}
<1>1. ASSUME NEW p \in Places(e)
      PROVE  /\ p[1] \in Key /\ p = <<p[1], p[2]>>
             /\ p[2] \in DOMAIN db[p[1]].items /\ db[p[1]].items[p[2]] = e
    BY DEF Places
<1>2. ASSUME e \notin Stored(db)
      PROVE  Places(e) = {}
    BY <1>1, <1>2, StoredIs
<1>3. ASSUME e \in Stored(db)
      PROVE  \E p : Places(e) = {p}
    <2>1. PICK k \in Key : \E i \in DOMAIN db[k].items : db[k].items[i] = e
        BY <1>3, StoredIs
    <2>2. PICK i \in DOMAIN db[k].items : db[k].items[i] = e
        BY <2>1
    <2>3. <<k, i>> \in Places(e)
        <3>1. <<k, i>> \in Key \X UNION {DOMAIN db[x].items : x \in Key}
            BY <2>1, <2>2
        <3>2. QED BY <2>2, <3>1 DEF Places
    <2>4. ASSUME NEW p \in Places(e)
          PROVE  p = <<k, i>>
        BY <1>1, <2>2 DEF Distinct
    <2>5. QED BY <2>3, <2>4
<1>4. QED BY <1>2, <1>3

\* Without blpop and brpop the takers are the pops that do not block.
LEMMA TakersAre ==
    ASSUME MovesOnly, TypeOK, NEW e
    PROVE  Takers(e) = {x \in ReqId : Takes(x, e)}
<1>1. ASSUME NEW x \in ReqId
       PROVE  asked[x].op \notin {"blpop", "brpop"}
    <2>1. asked[x] \in Request \/ asked[x] = NoReq
        BY DEF TypeOK
    <2>2. asked[x] \in Request => asked[x].op = "invalid" \/ asked[x].op \notin {"blpop", "brpop"}
        BY DEF MovesOnly
    <2>3. QED BY <2>1, <2>2 DEF NoReq
<1>2. QED BY <1>1 DEF Takers, Takes, Pops

\* What is accounted for is in one place or has one taker.
LEMMA InvAccounts ==
    ASSUME MovesOnly, MoveInv
    PROVE  ElementAccounted
<1> SUFFICES ASSUME NEW e \in ReqId, Pushed(e)
             PROVE  Cardinality(Places(e)) + Cardinality(Takers(e)) = 1
    BY DEF ElementAccounted, Pushed, Pushes
<1>1. Distinct(db) /\ TypeOK /\ Accounted
    BY DEF MoveInv, Sound, WalkInv, AnswerInv
<1>2. Takers(e) = {x \in ReqId : Takes(x, e)}
    BY <1>1, TakersAre
<1>3. CASE e \in Stored(db)
    <2>1. Takers(e) = {} /\ \E p : Places(e) = {p}
        BY <1>1, <1>2, <1>3, PlacesAre DEF Accounted
    <2>2. Cardinality(Takers(e)) = 0 /\ Cardinality(Places(e)) = 1
        BY <2>1, FS_EmptySet, FS_Singleton
    <2>3. QED BY <2>2
<1>4. CASE e \notin Stored(db)
    <2>1. PICK x \in ReqId : Takes(x, e)
        BY <1>1, <1>4 DEF Accounted
    <2>2. Takers(e) = {x} /\ Places(e) = {}
        BY <1>1, <1>2, <1>4, <2>1, PlacesAre DEF Accounted
    <2>3. Cardinality(Takers(e)) = 1 /\ Cardinality(Places(e)) = 0
        BY <2>2, FS_EmptySet, FS_Singleton
    <2>4. QED BY <2>3
<1>5. QED BY <1>3, <1>4

\* While clients only push, pop and move, an element whose push was answered is
\* in one place of one list or has been answered to one pop: neither the walk over
\* the hanging jobs, nor the reply array they share, nor clients that leave, with
\* their descriptors used again, duplicates one or loses one.
THEOREM ElementsAccounted ==
    ASSUME MovesOnly
    PROVE  Spec => []ElementAccounted
<1>1. MoveInv => ElementAccounted
    BY InvAccounts
<1>2. MoveInv /\ [Next]_vars => MoveInv'
    BY MoveKept
<1>3. QED BY <1>1, <1>2, InitMove, PTL DEF Spec

\* Under the same hypothesis a brpoplpush is answered, at once or as a job, with
\* the very element its step takes from the tail of the source and puts at the
\* head of the destination, or with nil when its timeout has taken nothing: no
\* cell that another request has left in the shared array gets into the answer.
THEOREM RepliesHonest ==
    ASSUME MovesOnly
    PROVE  Spec => HonestReply
<1>1. MoveInv /\ [Next]_vars => MoveInv' /\ [HonestStep]_vars
    BY MoveKept
<1>2. QED BY <1>1, InitMove, PTL DEF Spec, HonestReply

-----------------------------------------------------------------------------
(* The server survives *)

\* What keeps the server up: nothing stale is replied, and nobody writes to a
\* client that has left.
LiveInv == MoveInv /\ LockInv /\ ServerSurvives

\* Nobody who has left is written to: a client with a request unread or a job
\* hanging is waiting.
LEMMA NoPipe ==
    ASSUME LockInv, NEW f \in Fd,
           read_request(f) \/ HangsAt(f)
    PROVE  ~SigPipe(f)
<1>1. TypeOK /\ LockStep
    BY DEF LockInv, AnswerInv
<1>2. conn[f] \in Client => cstate[conn[f]] = "waiting"
    <2>1. CASE read_request(f)
        BY <1>1, <2>1 DEF read_request, LockStep
    <2>2. CASE HangsAt(f)
        <3>1. PICK i \in DOMAIN pending : pending[i].fd = f
            BY <2>2 DEF HangsAt
        <3>2. cstate[pending[i].id[1]] = "waiting" /\ conn[f] = pending[i].id[1]
            BY <1>1, <3>1 DEF LockStep
        <3>3. QED BY <3>2
    <2>3. QED BY <2>1, <2>2
<1>3. conn[f] \in Client => peer[conn[f]] = "open"
    BY <1>1, <1>2 DEF LockStep
<1>4. QED BY <1>1, <1>3 DEF SigPipe, TypeOK

\* The invariant behind ServerSurvives is inductive.
LEMMA LiveKept ==
    ASSUME MovesOnly, "waiting" \notin ExitWhen
    PROVE  LiveInv /\ [Next]_vars => LiveInv'
<1> SUFFICES ASSUME LiveInv, [Next]_vars
             PROVE  pc' # "down"
    BY MoveKept, LockKept DEF LiveInv, ServerSurvives
<1>1. MoveInv /\ LockInv /\ pc # "down"
    BY DEF LiveInv, ServerSurvives
<1>2. CASE UNCHANGED vars
    BY <1>1, <1>2 DEF vars
<1>3. CASE Clients
    BY <1>1, <1>3 DEF Clients, connect_server, send_request, read_reply, client_exit, loopVars
<1>4. CASE Server
    <2>1. CASE epoll_wait \/ accept_connection \/ events_done \/ jobs_done
        BY <1>1, <2>1 DEF epoll_wait, accept_connection, events_done, jobs_done
    <2>2. ASSUME NEW f \in Fd, process_in_data(f)
          PROVE  pc' # "down"
        <3>1. CASE read_request(f)
            BY <1>1, <3>1, ReadAttempt, NoPipe
        <3>2. CASE read_fails(f) \/ disconnected(f)
            BY <1>1, <3>2 DEF read_fails, disconnected
        <3>3. QED BY <2>2, <3>1, <3>2 DEF process_in_data
    <2>3. CASE job_timeout \/ job_attempt
        BY <1>1, <2>3, VisitMoves, NoPipe DEF Writes
    <2>4. QED BY <1>4, <2>1, <2>2, <2>3 DEF Server
<1>5. QED BY <1>2, <1>3, <1>4 DEF Next

\* If, besides, no client exits while it waits, no request brings the server
\* down: nothing that was freed is replied, and no second write goes to a
\* connection that was reset.
THEOREM ServerLives ==
    ASSUME MovesOnly, "waiting" \notin ExitWhen
    PROVE  Spec => []ServerSurvives
<1>1. Init => LiveInv
    BY InitMove, InitLock DEF LiveInv, ServerSurvives, Init
<1>2. LiveInv => ServerSurvives
    BY DEF LiveInv
<1>3. LiveInv /\ [Next]_vars => LiveInv'
    BY LiveKept
<1>4. QED BY <1>1, <1>2, <1>3, PTL DEF Spec
=============================================================================
