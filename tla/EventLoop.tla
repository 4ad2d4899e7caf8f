------------------------------ MODULE EventLoop ------------------------------
(***************************************************************************)
(* The event loop of server/server.c: accepting connections, reading       *)
(* requests, the list of hanging jobs that blocking commands leave behind, *)
(* and the one reply array all commands share; with the clients of         *)
(* client/client.c and the sockets between them.                           *)
(*                                                                         *)
(* The server is one thread.  One step of it is one accept, one read with  *)
(* the request it processes, or one hanging job.  Clients act between any  *)
(* two of these steps.                                                     *)
(*                                                                         *)
(* A request is known by its id: the client that sent it and its number.   *)
(* The element a push stores is the id of the push, so that every element  *)
(* can be told from every other.                                           *)
(***************************************************************************)
EXTENDS Integers, Sequences, FiniteSets, SequencesExt

CONSTANTS
    Client,     \* runs of the client program, each with one connection
    MaxReq,     \* bound: requests sent by one client
    Key,        \* keys of the keyspace
    Request,    \* the requests clients choose from
    Fd,         \* descriptors that accept can return
    MaxEvents,  \* events one epoll_wait returns at most
    ExitWhen,   \* when a client may exit: among "idle" "waiting" "unread"
    FreedRead,  \* what comes of reading a freed string: "kept" "garbled" "abort"
    ArrCap,     \* the values of _rply_arr_len, 2^8
    Listen,     \* the listening socket
    NoConn,     \* no connection
    Nil, Time   \* the nil and the waiting-time entries of an array reply

Op == {"blpop", "brpop", "brpoplpush", "rpoplpush", "lpop", "rpop", "lpush",
       "rpush", "lrange", "set", "del", "invalid"}
Blocking == {"blpop", "brpop", "brpoplpush"}

ReqId == Client \X (1..MaxReq)
NoReq == [op |-> "none", keys |-> <<>>, timed |-> FALSE]

ASSUME ConstantsAssumption ==
    /\ MaxReq \in Nat
    /\ Request \subseteq [op : Op, keys : Seq(Key), timed : BOOLEAN]
    /\ Fd \subseteq Nat
    /\ MaxEvents \in Nat \ {0}
    /\ Listen \notin Fd
    /\ NoConn \notin Client
    /\ FreedRead \subseteq {"kept", "garbled", "abort"}
    /\ FreedRead # {}
    /\ ArrCap \in Nat /\ ArrCap > 3

INSTANCE ListStore WITH Elem <- ReqId

VARIABLES
    cstate,   \* each client: "off" "connecting" "idle" "waiting" "gone"
    sent,     \* how many requests it has sent
    asked,    \* the request behind each id, NoReq before it is sent
    outq,     \* replies a client has not read, by the id they answer
    backlog,  \* connections nobody has accepted
    conn,     \* the client at the other end of each open descriptor
    peer,     \* what the server's kernel knows of each connection
    inq,      \* requests the server has not read, by connection
    ready,    \* descriptors with an event that epoll has not reported
    db,       \* key_dict
    arr,      \* _reply_arr up to _rply_arr_len
    pending,  \* the jobs behind _action_head, the newest first
    pc,       \* where main_loop is: "poll" "events" "jobs" or "down"
    batch,    \* events reported and not yet handled
    cur,      \* the descriptor whose handler is running, NoConn if none
    walk,     \* position of do_hanging_jobs in pending
    replies,  \* history: the replies written for each request
    fed       \* history: keys that jobs of the latest pass pushed to

clientVars == <<cstate, sent, asked>>
queueVars == <<outq, peer, replies>>
dataVars == <<db, arr, pending>>
loopVars == <<pc, batch, cur, walk, fed>>
vars == <<cstate, sent, asked, outq, backlog, conn, peer, inq, ready, db, arr,
          pending, pc, batch, cur, walk, replies, fed>>

-----------------------------------------------------------------------------
(* The reply array *)

\* mem says where the string of a cell lives: "owned" strings are freed by the
\* next array reply (NEED_FREE), an "entry" is freed with its list entry, a
\* "static" one never.
Cell(what, mem) == [what |-> what, mem |-> mem]
KeyCell(k) == Cell(k, "owned")
PoppedCell(e) == Cell(e, "owned")
EntryCell(e) == Cell(e, "entry")
NilCell == Cell(Nil, "static")
TimeCell == Cell(Time, "static")

Stored(d) == UNION {ToSet(d[k].items) : k \in Key}
Dangling(cell, d) ==
    \/ cell.mem = "freed"
    \/ cell.mem = "entry" /\ cell.what \notin Stored(d)

Reply(type, val) == [type |-> type, val |-> val]

\* How an attempt at a request ends, ret being "reply", "blocked" or "down".
Outcome(ret, d, a, reply) == [ret |-> ret, db |-> d, arr |-> a, reply |-> reply]
Blocked(d, a) == Outcome("blocked", d, a, Reply("none", <<>>))
Down(d, a) == Outcome("down", d, a, Reply("none", <<>>))

FreeOwned(a) ==
    [i \in DOMAIN a |->
        IF a[i].mem = "owned" THEN [a[i] EXCEPT !.mem = "freed"] ELSE a[i]]

\* Reading a string that was freed can yield anything: a length that does not
\* fit (E_TOO_LONG, and _curr_reply stays as it was), other bytes, or the end
\* of the process, at the latest in the second free.
create_arr_reply(a, d, current) ==
    IF \E i \in DOMAIN a : Dangling(a[i], d)
    THEN {CASE o = "kept" -> Outcome("reply", d, FreeOwned(a), current)
            [] o = "garbled" -> Outcome("reply", d, FreeOwned(a), Reply("garbled", <<>>))
            [] o = "abort" -> Down(d, a)
          : o \in FreedRead}
    ELSE {Outcome("reply", d, FreeOwned(a),
                  Reply("arr", [i \in DOMAIN a |-> a[i].what]))}

-----------------------------------------------------------------------------
(* process_request *)

\* CHECK_ARGS and CHECK_ARGS_GE.  A push or a set also has one value, and a
\* blocking command its timeout.  "invalid" stands for what process_request
\* itself refuses: an unknown command, arguments or a timeout it cannot parse.
ArgsOK(r) ==
    \/ r.op \in {"blpop", "brpop", "del"} /\ Len(r.keys) >= 1
    \/ r.op \in {"brpoplpush", "rpoplpush"} /\ Len(r.keys) = 2
    \/ r.op \in {"lpop", "rpop", "lpush", "rpush", "lrange", "set"} /\ Len(r.keys) = 1

Command(d, id, r) ==
    IF ~ArgsOK(r) THEN Result("fail", d, <<>>) ELSE
    CASE r.op = "blpop"      -> blpopbrpop_command(d, "left", r.keys)
      [] r.op = "brpop"      -> blpopbrpop_command(d, "right", r.keys)
      [] r.op = "brpoplpush" -> brpoplpush_command(d, r.keys[1], r.keys[2])
      [] r.op = "rpoplpush"  -> rpoplpush_command(d, r.keys[1], r.keys[2])
      [] r.op = "lpop"       -> lpoprpop_command(d, "left", r.keys[1])
      [] r.op = "rpop"       -> lpoprpop_command(d, "right", r.keys[1])
      [] r.op = "lpush"      -> lpushrpush_command(d, "left", r.keys[1], <<id>>)
      [] r.op = "rpush"      -> lpushrpush_command(d, "right", r.keys[1], <<id>>)
      [] r.op = "lrange"     -> lrange_command(d, r.keys[1], 0, -1)
      [] r.op = "set"        -> set_command(d, r.keys[1])
      [] r.op = "del"        -> del_command(d, r.keys)

\* A variant with a fault: the array is not reset.
Refill_noreset(a, cells) == a \o cells

\* reset_reply_arr, then addto_reply_arr for each of the cells, which are fewer
\* than ArrCap.
Refill(a, cells) == cells

\* The reply array as the command leaves it.  brpoplpush resets it only when
\* it succeeds, blpop and brpop only past the check of the type.
ArrayAfter(r, res, a) ==
    CASE r.op \in {"blpop", "brpop"} /\ res.ret = "arr" ->
            Refill(a, <<KeyCell(r.keys[1]), PoppedCell(res.val[1])>>)
      [] r.op \in {"blpop", "brpop"} /\ res.ret = "blocked" -> Refill(a, <<>>)
      [] r.op = "brpoplpush" /\ res.ret = "arr" -> Refill(a, <<EntryCell(res.val[1])>>)
      [] r.op = "lrange" /\ res.ret = "arr" ->  \* what Filled left of the range
            Refill(a, [i \in DOMAIN res.val |-> EntryCell(res.val[i])])
      [] r.op = "lrange" /\ res.ret = "fail" /\ ArgsOK(r) -> Refill(a, <<>>)
      [] OTHER -> a

\* The reply the command itself leaves in _curr_reply.
OwnReplyOf(res) == Reply(res.ret, IF res.ret = "str" THEN res.val ELSE <<>>)

\* Whatever a blocking command that did not block returned, process_request
\* goes on to reply the array: also after the command failed.
process_request(id, d, a) ==
    LET r == asked[id]
        res == Command(d, id, r)
        a2 == ArrayAfter(r, res, a)
    IN  IF res.ret \in {"crash", "doublefree"} THEN {Down(res.db, a)}
        ELSE IF res.ret = "blocked" THEN {Blocked(res.db, a2)}
        ELSE IF r.op \in Blocking \/ res.ret = "arr"
        THEN create_arr_reply(a2, res.db, OwnReplyOf(res))
        ELSE {Outcome("reply", res.db, a2, OwnReplyOf(res))}

-----------------------------------------------------------------------------
(* Sockets *)

\* peer[c], for a connection the server has accepted or will accept:
\*   "open"  the client is there
\*   "fin"   the client closed it, having read everything
\*   "rst"   the client closed it with replies unread: a reset is reported once
\*   "pipe"  the reset has been reported: one more write is SIGPIPE
FdOf(c) == {f \in Fd : conn[f] = c}

SigPipe(f) == conn[f] # NoConn /\ peer[conn[f]] = "pipe"

\* Write a reply to descriptor f for request id.  No trace is left of a reply
\* that does not arrive.
send_reply(f, id, reply) ==
    LET c == conn[f]
        arrives == c # NoConn /\ peer[c] = "open"
        written == [to |-> IF arrives THEN c ELSE NoConn, hung |-> pc = "jobs",
                    type |-> reply.type, val |-> reply.val]
    IN  /\ replies' = [replies EXCEPT ![id] = Append(@, written)]
        /\ outq' = IF arrives THEN [outq EXCEPT ![c] = Append(@, id)] ELSE outq
        /\ peer' = IF c # NoConn /\ ~arrives THEN [peer EXCEPT ![c] = "pipe"] ELSE peer

-----------------------------------------------------------------------------
(* Clients *)

connect_server(c) ==
    /\ cstate[c] = "off"
    /\ cstate' = [cstate EXCEPT ![c] = "connecting"]
    /\ backlog' = Append(backlog, c)
    /\ ready' = ready \cup {Listen}
    /\ UNCHANGED <<sent, asked, queueVars, conn, inq, dataVars, loopVars>>

send_request(c, r) ==
    LET id == <<c, sent[c] + 1>>
    IN  /\ cstate[c] = "idle"
        /\ sent[c] < MaxReq
        /\ cstate' = [cstate EXCEPT ![c] = "waiting"]
        /\ sent' = [sent EXCEPT ![c] = @ + 1]
        /\ asked' = [asked EXCEPT ![id] = r]
        /\ inq' = [inq EXCEPT ![c] = Append(@, id)]
        /\ ready' = ready \cup FdOf(c)
        /\ UNCHANGED <<queueVars, backlog, conn, dataVars, loopVars>>

\* One read takes all there is; what follows the first reply is not shown.
read_reply(c) ==
    /\ cstate[c] = "waiting"
    /\ outq[c] # <<>>
    /\ cstate' = [cstate EXCEPT ![c] = "idle"]
    /\ outq' = [outq EXCEPT ![c] = <<>>]
    /\ UNCHANGED <<sent, asked, backlog, conn, peer, inq, ready, dataVars,
                   loopVars, replies>>

client_exit(c) ==
    /\ cstate[c] \in {"idle", "waiting"}
    /\ (IF outq[c] = <<>> THEN cstate[c] ELSE "unread") \in ExitWhen
    /\ cstate' = [cstate EXCEPT ![c] = "gone"]
    /\ peer' = [peer EXCEPT ![c] = IF @ # "open" THEN @
                                   ELSE IF outq[c] = <<>> THEN "fin" ELSE "rst"]
    /\ outq' = [outq EXCEPT ![c] = <<>>]
    /\ ready' = ready \cup FdOf(c)
    /\ UNCHANGED <<sent, asked, backlog, conn, inq, dataVars, loopVars, replies>>

-----------------------------------------------------------------------------
(* The server *)

\* epoll_wait reports as many events as there are, up to MaxEvents, and
\* returns without any after a second.
epoll_wait ==
    /\ pc = "poll"
    /\ \E events \in SUBSET ready :
          /\ \/ events = ready /\ Cardinality(ready) <= MaxEvents
             \/ Cardinality(events) = MaxEvents /\ MaxEvents < Cardinality(ready)
          /\ batch' = events
          /\ ready' = ready \ events
    /\ pc' = "events"
    /\ UNCHANGED <<clientVars, queueVars, backlog, conn, inq, dataVars, cur, walk, fed>>

\* The handler of descriptor f is running, or is picked to run next.
Handling(f) ==
    /\ pc = "events"
    /\ cur = f \/ (cur = NoConn /\ f \in batch)

\* A variant with a fault: the other events are forgotten.
HandlerReturns_first(f) ==
    /\ cur' = NoConn
    /\ batch' = {}

\* The handler of f returns, or has more to accept or to read.
HandlerReturns(f) ==
    /\ cur' = NoConn
    /\ batch' = batch \ {f}

\* A variant with a fault: the handler does its work once.
HandlerGoesOn_once(f) ==
    /\ cur' = NoConn
    /\ batch' = batch \ {f}

HandlerGoesOn(f) ==
    /\ cur' = f
    /\ batch' = batch

FreeFd == {f \in Fd : conn[f] = NoConn}
LowestFree == CHOOSE f \in FreeFd : \A g \in FreeFd : f <= g

\* The client reads the descriptor it is told and is then idle.
accept_connection ==
    /\ Handling(Listen)
    /\ \/ /\ backlog # <<>>
          /\ FreeFd # {}
          /\ conn' = [conn EXCEPT ![LowestFree] = Head(backlog)]
          /\ cstate' = [cstate EXCEPT ![Head(backlog)] = "idle"]
          /\ backlog' = Tail(backlog)
          /\ HandlerGoesOn(Listen)
       \/ /\ backlog = <<>> \/ FreeFd = {}
          /\ HandlerReturns(Listen)
          /\ UNCHANGED <<conn, cstate, backlog>>
    /\ UNCHANGED <<sent, asked, queueVars, inq, ready, dataVars, pc, walk, fed>>

\* A variant with a fault: a job is added only if none hangs.
addto_pending_one(id, f) == IF pending = <<>> THEN <<[id |-> id, fd |-> f]>> ELSE pending

addto_pending(id, f) == <<[id |-> id, fd |-> f]>> \o pending

\* One read returns everything the connection holds, and of that only the
\* first request is looked at.
read_request(f) ==
    LET c == conn[f]
        id == Head(inq[c])
    IN  /\ Handling(f)
        /\ c # NoConn
        /\ inq[c] # <<>>
        /\ inq' = [inq EXCEPT ![c] = <<>>]
        /\ HandlerGoesOn(f)
        /\ \E out \in process_request(id, db, arr) :
              /\ db' = out.db
              /\ arr' = out.arr
              /\ \/ /\ out.ret = "reply"
                    /\ send_reply(f, id, out.reply)
                    /\ pc' = IF SigPipe(f) THEN "down" ELSE pc
                    /\ UNCHANGED pending
                 \/ /\ out.ret = "blocked"
                    /\ pending' = addto_pending(id, f)
                    /\ UNCHANGED <<queueVars, pc>>
                 \/ /\ out.ret = "down"
                    /\ pc' = "down"
                    /\ UNCHANGED <<queueVars, pending>>
        /\ UNCHANGED <<clientVars, backlog, conn, ready, walk, fed>>

\* A variant with a fault: whatever is not data closes the descriptor.
read_fails_closes(f) ==
    LET c == conn[f]
    IN  /\ Handling(f)
        /\ c # NoConn
        /\ inq[c] = <<>>
        /\ conn' = [conn EXCEPT ![f] = NoConn]
        /\ ready' = ready \ {f}
        /\ HandlerReturns(f)
        /\ UNCHANGED <<clientVars, queueVars, backlog, inq, dataVars, pc, walk, fed>>

\* read fails with EAGAIN or ECONNRESET, and the handler returns.
read_fails(f) ==
    LET c == conn[f]
    IN  /\ Handling(f)
        /\ c # NoConn
        /\ inq[c] = <<>>
        /\ peer[c] \in {"open", "rst"}
        /\ peer' = IF peer[c] = "rst" THEN [peer EXCEPT ![c] = "pipe"] ELSE peer
        /\ HandlerReturns(f)
        /\ UNCHANGED <<clientVars, outq, replies, backlog, conn, inq, ready, dataVars,
                       pc, walk, fed>>

\* read returns 0, and the descriptor is closed.
disconnected(f) ==
    LET c == conn[f]
    IN  /\ Handling(f)
        /\ c # NoConn
        /\ inq[c] = <<>>
        /\ peer[c] \in {"fin", "pipe"}
        /\ conn' = [conn EXCEPT ![f] = NoConn]
        /\ ready' = ready \ {f}
        /\ HandlerReturns(f)
        /\ UNCHANGED <<clientVars, queueVars, backlog, inq, dataVars, pc, walk, fed>>

process_in_data(f) == read_request(f) \/ read_fails(f) \/ disconnected(f)

\* A variant with a fault: the hanging jobs are not looked at after events.
events_done_nojobs ==
    /\ pc = "events"
    /\ cur = NoConn
    /\ batch = {}
    /\ pc' = "poll"
    /\ UNCHANGED <<clientVars, queueVars, backlog, conn, inq, ready, dataVars,
                   batch, cur, walk, fed>>

\* The loop over the events is over, and do_hanging_jobs is called.
events_done ==
    /\ pc = "events"
    /\ cur = NoConn
    /\ batch = {}
    /\ pc' = "jobs"
    /\ walk' = 1
    /\ fed' = {}
    /\ UNCHANGED <<clientVars, queueVars, backlog, conn, inq, ready, dataVars,
                   batch, cur>>

-----------------------------------------------------------------------------
(* do_hanging_jobs, one job at a time *)

\* A variant with a fault: a job that is done stays in the list.
Unlink_not(jobs, i) == jobs

Unlink(jobs, i) == RemoveAt(jobs, i)

\* The job at the walk is done: unlink it, append the waiting time to the
\* array, which an attempt that failed may have left as full as it gets, and
\* reply it to the descriptor the request came from.
FinishJob(d, a, current) ==
    LET job == pending[walk]
    IN  \E out \in create_arr_reply(Filled(Append(a, TimeCell)), d, current) :
           /\ db' = d
           /\ arr' = out.arr
           /\ pending' = Unlink(pending, walk)
           /\ \/ /\ out.ret = "reply"
                 /\ send_reply(job.fd, job.id, out.reply)
                 /\ pc' = IF SigPipe(job.fd) THEN "down" ELSE pc
              \/ /\ out.ret = "down"
                 /\ pc' = "down"
                 /\ UNCHANGED queueVars
           /\ UNCHANGED walk

\* A variant with a fault: the test for a timeout of 0 is the wrong way round.
HasTimeout_not(id) == ~asked[id].timed

HasTimeout(id) == asked[id].timed

\* The waiting time is up.  How much time has passed is not modelled: a job
\* with a timeout may be found late at any visit.
job_timeout ==
    /\ pc = "jobs"
    /\ walk <= Len(pending)
    /\ HasTimeout(pending[walk].id)
    /\ FinishJob(db, Refill(arr, <<NilCell>>), Reply("none", <<>>))
    /\ UNCHANGED <<clientVars, backlog, conn, inq, ready, batch, cur, fed>>

\* The keys a request that went through may have created.
Created(r) == IF r.op = "brpoplpush" /\ ArgsOK(r) THEN {r.keys[2]} ELSE {}

job_attempt ==
    /\ pc = "jobs"
    /\ walk <= Len(pending)
    /\ \E out \in process_request(pending[walk].id, db, arr) :
          \/ /\ out.ret = "reply"
             /\ FinishJob(out.db, out.arr, out.reply)
             /\ fed' = fed \cup Created(asked[pending[walk].id])
          \/ /\ out.ret = "blocked"
             /\ db' = out.db
             /\ arr' = out.arr
             /\ walk' = walk + 1
             /\ UNCHANGED <<queueVars, pending, pc, fed>>
          \/ /\ out.ret = "down"
             /\ db' = out.db
             /\ arr' = out.arr
             /\ pc' = "down"
             /\ UNCHANGED <<queueVars, pending, walk, fed>>
    /\ UNCHANGED <<clientVars, backlog, conn, inq, ready, batch, cur>>

jobs_done ==
    /\ pc = "jobs"
    /\ walk > Len(pending)
    /\ pc' = "poll"
    /\ UNCHANGED <<clientVars, queueVars, backlog, conn, inq, ready, dataVars,
                   batch, cur, walk, fed>>

-----------------------------------------------------------------------------

Init ==
    /\ cstate = [c \in Client |-> "off"]
    /\ sent = [c \in Client |-> 0]
    /\ asked = [id \in ReqId |-> NoReq]
    /\ outq = [c \in Client |-> <<>>]
    /\ backlog = <<>>
    /\ conn = [f \in Fd |-> NoConn]
    /\ peer = [c \in Client |-> "open"]
    /\ inq = [c \in Client |-> <<>>]
    /\ ready = {}
    /\ db = [k \in Key |-> NoObj]
    /\ arr = <<>>
    /\ pending = <<>>
    /\ pc = "poll"
    /\ batch = {}
    /\ cur = NoConn
    /\ walk = 1
    /\ replies = [id \in ReqId |-> <<>>]
    /\ fed = {}

Server ==
    \/ epoll_wait
    \/ accept_connection
    \/ \E f \in Fd : process_in_data(f)
    \/ events_done
    \/ job_timeout
    \/ job_attempt
    \/ jobs_done

\* After the server has died nothing is modelled.
Clients ==
    /\ pc # "down"
    /\ \E c \in Client : \/ connect_server(c)
                         \/ \E r \in Request : send_request(c, r)
                         \/ read_reply(c)
                         \/ client_exit(c)

Next == Server \/ Clients

Spec == Init /\ [][Next]_vars

\* The loop of main_loop never stops by itself, and time passes: a job with a
\* timeout is not visited for ever without being found late.
Fairness == WF_vars(Server) /\ SF_vars(job_timeout)
FairSpec == Spec /\ Fairness

-----------------------------------------------------------------------------
(* Properties *)

Item == Key \cup ReqId \cup {Nil, Time}
CellType == [what : Item, mem : {"owned", "entry", "static", "freed"}]
ReplyType == [to : Client \cup {NoConn}, hung : BOOLEAN,
              type : {"ok", "int", "nil", "str", "arr", "fail", "garbled", "none"},
              val : Seq(Item)]

\* Type invariant.
TypeOK ==
    /\ cstate \in [Client -> {"off", "connecting", "idle", "waiting", "gone"}]
    /\ sent \in [Client -> 0..MaxReq]
    /\ asked \in [ReqId -> Request \cup {NoReq}]
    /\ outq \in [Client -> Seq(ReqId)]
    /\ backlog \in Seq(Client)
    /\ conn \in [Fd -> Client \cup {NoConn}]
    /\ peer \in [Client -> {"open", "fin", "rst", "pipe"}]
    /\ inq \in [Client -> Seq(ReqId)]
    /\ ready \subseteq Fd \cup {Listen}
    /\ KeyspaceOK(db)
    /\ arr \in Seq(CellType)
    /\ pending \in Seq([id : ReqId, fd : Fd])
    /\ pc \in {"poll", "events", "jobs", "down"}
    /\ batch \subseteq Fd \cup {Listen}
    /\ cur \in Fd \cup {Listen, NoConn}
    /\ walk \in 1..(Len(pending) + 1)
    /\ replies \in [ReqId -> Seq(ReplyType)]
    /\ fed \subseteq Key

Hanging == {id \in ReqId : \E i \in DOMAIN pending : pending[i].id = id}
Unread == {id \in ReqId : \E c \in Client : \E i \in DOMAIN inq[c] : inq[c][i] = id}

\* A request is answered at most once, whichever of process_in_data and
\* do_hanging_jobs does it; while it hangs or is unread it has no answer, and
\* it never hangs twice.
AnsweredOnce ==
    /\ \A id \in ReqId :
          /\ Len(replies[id]) <= 1
          /\ id \in Hanging \cup Unread => replies[id] = <<>>
          /\ id \notin Hanging \cap Unread
    /\ \A i, j \in DOMAIN pending : pending[i].id = pending[j].id => i = j

\* The answer to a request is written to the connection the request came
\* from, or is lost because that client has gone.
OwnReply ==
    \A id \in ReqId : \A i \in DOMAIN replies[id] :
        \/ replies[id][i].to = id[1]
        \/ replies[id][i].to = NoConn /\ cstate[id[1]] = "gone"

\* The keys that unblock a request.
WaitsFor(r) == IF r.op = "brpoplpush" THEN {r.keys[1]} ELSE ToSet(r.keys)

\* No wakeup is missed: when the loop goes back to sleep in epoll_wait, none of
\* the keys a hanging job waits for exists, but for those a brpoplpush job of
\* the same pass has pushed to after the walk had gone by.
NoMissedWakeup ==
    pc = "poll" =>
        \A i \in DOMAIN pending : \A k \in WaitsFor(asked[pending[i].id]) :
            Missing(db, k) \/ k \in fed

Places(e) == {p \in Key \X UNION {DOMAIN db[k].items : k \in Key} :
                 p[2] \in DOMAIN db[p[1]].items /\ db[p[1]].items[p[2]] = e}
Takers(e) == {id \in ReqId :
                /\ asked[id].op \in {"blpop", "brpop", "lpop", "rpop"}
                /\ \E i \in DOMAIN replies[id] : e \in ToSet(replies[id][i].val)}

\* While nothing deletes or overwrites keys, an element that a push was
\* answered for is in exactly one place of one list, or one pop has been
\* answered with it: none is duplicated or lost between the commands that
\* clients send and the jobs that hang.
ElementAccounted ==
    pc # "down" =>
        \A e \in ReqId : asked[e].op \in {"lpush", "rpush"} /\ replies[e] # <<>> =>
            Cardinality(Places(e)) + Cardinality(Takers(e)) = 1

\* From keyspace d to d2, element e has gone from the tail of one list to the
\* head of another, or of the same, and no list has changed otherwise.
Moved(d, d2, src, dst, e) ==
    LET taken == [k \in Key |-> IF k = src THEN Front(d[k].items) ELSE d[k].items]
    IN  /\ d[src].items # <<>>
        /\ e = Last(d[src].items)
        /\ \A k \in Key : d2[k].items = IF k = dst THEN <<e>> \o taken[k] ELSE taken[k]

\* w is an answer to the brpoplpush r that tells what came of it: nil after its
\* timeout, and nothing has been taken, or the very element that has been moved;
\* followed by the waiting time exactly if it hung.
HonestAnswer(r, w, d, d2) ==
    /\ w.type = "arr"
    /\ \/ w.hung /\ r.timed /\ w.val = <<Nil, Time>> /\ d2 = d
       \/ \E e \in ReqId : /\ w.val = IF w.hung THEN <<e, Time>> ELSE <<e>>
                           /\ Moved(d, d2, r.keys[1], r.keys[2], e)

HonestStep ==
    \A id \in ReqId : asked[id].op = "brpoplpush" /\ replies'[id] # replies[id] =>
        HonestAnswer(asked[id], Last(replies'[id]), db, db')

\* Whether it is answered at once or when it hung, and whatever commands and
\* jobs have left in the one reply array before, a brpoplpush is answered with
\* the element that the step that answers it moves.
HonestReply == [][HonestStep]_vars

\* What do_hanging_jobs fills the reply array with is what it replies: an array
\* that ends with the waiting time.
ArrayRepliedWhole ==
    \A id \in ReqId : \A i \in DOMAIN replies[id] :
        LET r == replies[id][i]
        IN  r.hung => r.type = "arr" /\ r.val # <<>> /\ Last(r.val) = Time

\* No request brings the server down: checked of requests among which are no set
\* and no blpop or brpop, and of clients that stay for their answers.
ServerSurvives == pc # "down"

PhaseOf(id) ==
    IF asked[id] = NoReq THEN "unsent"
    ELSE IF id \in Unread THEN "unread"
    ELSE IF id \in Hanging THEN "hanging"
    ELSE IF replies[id] # <<>> THEN "answered"
    ELSE "lost"

Life == INSTANCE Requests WITH
            phase <- [id \in ReqId |-> PhaseOf(id)],
            answers <- [id \in ReqId |-> Len(replies[id])],
            up <- pc # "down"

\* Whatever the queues of the sockets, the reported events, the jobs and the walk
\* through them do, each request lives as Requests says: no step loses it, brings
\* it back after its answer, or touches another one.
LivesOn == Life!Spec

-----------------------------------------------------------------------------
(* The invariants behind AnsweredOnce, NoMissedWakeup and OwnReply *)

\* Requests that are unread, hang or have been answered have been sent, and the
\* unread ones are where their client has sent them.
IdsSent ==
    /\ \A c \in Client : \A n \in DOMAIN inq[c] :
          inq[c][n][1] = c /\ inq[c][n][2] <= sent[c]
    /\ \A i \in DOMAIN pending : pending[i].id[2] <= sent[pending[i].id[1]]
    /\ \A id \in ReqId : replies[id] # <<>> => id[2] <= sent[id[1]]

\* Nothing that job i waits for is there, but for what the pass has created.
Quiet(i) ==
    \A k \in WaitsFor(asked[pending[i].id]) : Missing(db, k) \/ k \in fed

\* The jobs the walk has gone by are quiet, and after the pass all of them.
WalkedPast ==
    /\ pc = "jobs" => \A i \in DOMAIN pending : i < walk => Quiet(i)
    /\ pc = "poll" => \A i \in DOMAIN pending : Quiet(i)

\* If no client exits while it waits, each has one request under way at most:
\* it is unread, or hangs at the descriptor of its client, or its reply has
\* arrived.
LockStep ==
    /\ \A c \in Client : cstate[c] # "gone" => peer[c] = "open"
    /\ \A c \in Client : cstate[c] \in {"off", "connecting", "idle"} => outq[c] = <<>>
    /\ \A c \in Client : inq[c] # <<>> => cstate[c] = "waiting" /\ outq[c] = <<>>
    /\ \A i \in DOMAIN pending :
          LET c == pending[i].id[1]
          IN  /\ cstate[c] = "waiting"
              /\ outq[c] = <<>>
              /\ inq[c] = <<>>
              /\ conn[pending[i].fd] = c
    /\ \A i, j \in DOMAIN pending : pending[i].id[1] = pending[j].id[1] => i = j
    /\ \A i \in DOMAIN backlog : cstate[backlog[i]] = "connecting"
    /\ \A i, j \in DOMAIN backlog : backlog[i] = backlog[j] => i = j

-----------------------------------------------------------------------------
(* Liveness *)

\* A wait with a timeout ends.
TimedWaitEnds ==
    \A id \in ReqId :
        id \in Hanging /\ asked[id].timed ~> id \notin Hanging \/ pc = "down"

\* A job does not hang for ever while a key it waits for exists.
PresentServed ==
    \A id \in ReqId :
        id \in Hanging /\ (\E k \in WaitsFor(asked[id]) : ~Missing(db, k))
            ~> \/ id \notin Hanging
               \/ \A k \in WaitsFor(asked[id]) : Missing(db, k)
               \/ pc = "down"

\* The edge-triggered events lose nothing: a request that has been sent is
\* read, a connection that has been made is accepted.
RequestsRead == \A id \in ReqId : id \in Unread ~> id \notin Unread \/ pc = "down"
ConnectionsAccepted ==
    \A c \in Client : cstate[c] = "connecting" ~> cstate[c] # "connecting" \/ pc = "down"

\* The descriptor of a client that has gone and has left nothing unread is
\* closed.  After a reset it is not: read fails, which closes nothing, and no
\* event follows.
DescriptorsClosed ==
    \A f \in Fd : \A c \in Client :
        conn[f] = c /\ peer[c] = "fin" ~> conn[f] # c \/ pc = "down"
=============================================================================
