# pseudo-redis in TLA+

A verification development for pseudo-redis, a small single-threaded imitation
of Redis: a server (`server/`) that keeps strings, lists, hashes and sets in
memory, and an interactive client (`client/`).  The modules here model the
event loop with its blocking commands, the commands of all five types, and the
three data structures under them.  TLC checks them on small instances; TLAPS
proves all of the safety properties, and the three refinements, for every value
of the parameters; some of them under hypotheses on the requests, most of which a
run shows to be needed.

Paths below are relative to the repository, which `PROJECT.json` calls `src/`.

## The system

| Component | State | Operations |
|---|---|---|
| Event loop, `server/server.c` | the epoll set, the list of hanging jobs `_action_head` | `main_loop`, `accept_connection`, `process_in_data`, `process_request`, `addto_pending`, `do_hanging_jobs` |
| Reply construction, `server/server.c` | one `_curr_reply`, one array `_reply_arr` with `_rply_arr_len` | `reset_reply_arr`, `addto_reply_arr`, `create_arr_reply`, the other `create_*_reply` |
| Commands, `server/commands.c` | `key_dict` | 63 commands: keys, strings, hashes, lists, sets |
| Hash table, `server/dict.c` | slots, chains, `entry_num` | add, remove, rename, look up, iterate, scan, draw at random |
| Linked lists, `server/list.c` | `next`, `prev`, `num` | insert, remove, pop, move |
| Binary-safe strings, `server/bss.c` | `len`, `free`, bytes | create, append, bits, ranges, integer and float arithmetic |
| Client, `client/client.c` | one connection | connect, send a line, read one reply, show it |

How they interact.  The server is one thread.  `main_loop` waits for events
for at most a second, handles each, and then walks the hanging jobs.  A handler
of a connection reads requests until there are no more, and runs the command of
each at once.  A blocking command (`blpop`, `brpop`, `brpoplpush`) that finds
nothing returns `E_BLOCKED`; its request is copied to the head of the list of
jobs with the descriptor it came from, and is tried again on each walk until it
succeeds or its timeout has passed.  Commands share the reply array: they put
pointers to strings into it, some of which (`NEED_FREE`) `create_arr_reply`
frees and some of which belong to list entries.  The client waits for a reply
before it sends the next request.

What is hard here: clients that connect, ask and leave between any two steps of
the server; requests of one batch of events and jobs of one walk that take from
one another; edge-triggered events, which are reported once; descriptor numbers
that are reused while jobs remember them; an array of borrowed and owned strings
that outlives the command that filled it; error paths after half of a command's
effects.  `PROJECT.json` lists these at their lines under `hazards`.

What makes the parts correct:

* event loop: each request is answered once, to the client that asked, and with
  what the command did; no wakeup is missed; waits end; nothing that has been
  sent, connected or closed is overlooked;
* commands: an empty list does not exist; elements are neither lost nor
  duplicated; replies tell the change; offsets and counts mean what they say;
* hash table: it is a map; `entry_num` counts; a scan misses nothing that stays;
* linked lists: both directions of the ring agree with the order of insertion;
* hashes and sets: a failed command changes nothing; a collection that is empty
  goes; the set algebra frees no string of another set; arrays list what is
  asked for;
* strings: `len` and `free` describe the allocation; what is left in memory does
  not show; arithmetic overflows are refused; what is read can be sent back.

## Modules

| Module | Models | |
|---|---|---|
| `ListStore` | list commands of `commands.c` as operators on the keyspace | used by the next two |
| `ListCommands` | the commands in any order, with any arguments | runs `lists`, `many_keys` |
| `EventLoop` | `server.c` and `client.c` over `ListStore` | the other runs named below |
| `ListProofs` | theorems about `ListCommands` | TLAPS |
| `EventLoopProofs` | theorems about `EventLoop` | TLAPS |
| `Requests` | what `EventLoop` promises of a request | refinement, property `LivesOn` |
| `DeliveryProofs` | theorems about what `EventLoop` delivers: the refinement, and the fate of elements | TLAPS |
| `DataStore` | commands on keys and scalars, counters, the reply array | used by the next three |
| `HashStore`, `SetStore` | the hash and the set commands, as operators | each extends the one before |
| `DataCommands` | these commands in any order | run `data` |
| `DataProofs` | theorems about `DataCommands` | TLAPS |
| `Bss` | `bss.c`, byte by byte | used by the next |
| `StringCommands` | the string commands on one key, and `parse_args` | run `strings` |
| `StringProofs` | theorems about `StringCommands` | TLAPS |
| `ByteString` | what `StringCommands` implements | refinement, property `IsString` |
| `Dict` | `dict.c`, with `rename`, `randomkey` and `sscan` | run `dict` |
| `KeyMap` | what `Dict` implements | refinement, property `IsMap` |
| `DictProofs` | theorems about `Dict` | TLAPS |
| `LinkedList` | `list.c`, pointer by pointer | run `rings` |
| `LinkedListProofs` | theorems about `LinkedList` | TLAPS |
| `Lemmas` | facts about numbers, sequences, folds and sums that the proofs share | TLAPS |
| `MC*` | instances for TLC | |

The modules divide the program by what its hazards are about.  `EventLoop` runs
the list commands, because those are the ones that block; the others run to
their end in one call of `process_request` and touch nothing but the keyspace and
the reply, so that `DataCommands` and `StringCommands` take them one after the
other.  `DataStore` has numbers and no bytes, `StringCommands` bytes and no
numbers.

Operators and actions have the names of the functions they model.  A definition
whose name ends in a word after an underscore, and whose comment begins "A
variant with a fault", is a deliberately wrong form of the definition below it:
`PROJECT.json` lists under `mutants` which property each of them breaks.

### ListStore and ListCommands

A keyspace is a function from keys to objects; an object has the type tag of
`obj.h`, and a list its elements from head to tail.  A command operator returns
the keyspace afterwards, how the command ended (`ret`) and what it hands to the
reply.  Everything the C code does in an order that matters is kept: the pop
before the type check of the destination, the key that is passed to `dict_rm`.
A dereference of a missing entry is `"crash"`, a second `free` of an argument
`"doublefree"`.  `lrange` fills the reply array cell by cell, and `Filled` is what
its length of 8 bits leaves of the cells: `ArrCap` is the number of values of
`_rply_arr_len`.  `ListCommands` adds the state: the keyspace and the latest reply.
Offsets and counts are integers without a width.

### EventLoop

One step is one accept, one read together with the request it processes, one
hanging job, or one action of a client.  This is as fine as the program is: the
server is interrupted by nobody, and clients see it only through sockets.

| Variable | In the code |
|---|---|
| `conn`, `ready`, `batch`, `cur` | descriptors, epoll's ready list, the array of events, the handler that is running |
| `db`, `arr` | `key_dict`, `_reply_arr` up to `_rply_arr_len` |
| `pending`, `walk` | the list behind `_action_head` and the position of `do_hanging_jobs` |
| `cstate`, `sent`, `asked`, `inq`, `outq`, `peer`, `backlog` | the client programs and the kernel's side of the connections |
| `replies`, `fed` | history only: what was written for each request, and which keys the jobs of the latest walk pushed to |

Requests are known by client and number, and a push stores the id of its own
request, so that all elements differ.  A cell of the reply array says where its
string lives; reading a string that has been freed has every outcome in
`FreedRead`: the reply stays as it was, holds something else, or the process
ends.  Sockets follow TCP: a close with unread data resets the connection, the
first write after a reset is lost, and the next one raises SIGPIPE, which the
server does not ignore.  A read from a connection that was reset fails, and the
handler, which closes on the end of a stream only, keeps the descriptor.  Time is not counted: a job with a timeout may be found
late at any visit.  A request is one message; it is not cut by the network.
`accept` is taken to succeed while there are descriptors.

`Requests` is the abstract specification: each request is unsent, unread,
hanging, answered or lost, the next one is sent when the one before it is
answered, and only a server that goes down loses one.  `Life` maps the sockets,
the jobs and the history `replies` to these phases.

### DataStore, HashStore, SetStore and DataCommands

A value is an integer in the range of `bss_int_t`, which stands for its text, or
one of three texts: empty, a finite number that is no such integer, no number.
`IntMax` and `PrintMax` are the largest numbers of `bss_int_t` and of the `int`
that `"%d"` takes.  A hash or a set is a function from fields to cells, which
is what `Dict` implements (`IsMap`), and the order in which a table is walked a
parameter of the commands that do.  As in `ListStore`, an operator returns the
keyspace, how the command ended and what it replies.  Undefined behaviour is a
result (`"wild"`), after which `DataCommands` stops, as it does when `spop` draws
from an empty set for ever (`"loops"`).

The reply array is the one of `server.h`: cells, and a length that wraps at
`ArrCap` and is compared with `MaxArgs`.  The temporary tables of `sdiff`, `sinter`
and `sunion` share the strings of the sets they are filled from; the model keeps
for each entry whose string it is (`owner`), and which strings `dict_add` and its
relatives have freed.

`DataCommands` adds the state: the keyspace and how the latest command ended.  The
commands that only read are not steps; the invariants `ArraysAgree` and
`RepliesTellChange` apply them to every state that the others can produce.

### Bss, StringCommands and ByteString

A string is its two counters and the memory behind them, a function over exactly
the bytes that were allocated: TLC itself would stop at an access beyond it.
A byte is the set of its bits that are 1, numbered from the lowest on, and a
mask, which the C code shifts into place, the set of one bit; so `|` is a union
and `NUL` the empty set, and no power of two stands between the model and its
proofs.  Memory from `malloc` holds a byte of `Fill`.  The operators follow the C
code with its own arithmetic, the sums of a `size_t` and a negative offset
included: `Wild` is a write outside, `NULL` an allocation that no machine can
serve.  Both are told from strings by a negative length.
`IntText` and `FloatText` are the texts that `sprintf` may print.  A command that
does not return leaves `"down"`, and the model stops.

`ByteString` is the abstract specification: the value of a key is a sequence of
bytes.  `Contents` maps memory to it.  It names the two places in which storage
shows, and `IsString` says that these are all: a `setbit` or an append that needs
more than the memory a string has, and the gap that `setrange` leaves.

`parse_args` is a fold over the bytes of a line, with the state of its two loops.

### Dict, KeyMap and LinkedList

A chain of `Dict` is the sequence of its entries and the hash function a
parameter.  A table is the keyspace or a set (`use`).  `num` is `entry_num`,
negative where the `size_t` has wrapped; `uncounted` records how many entries
`dict_rename` has linked without counting them.  One client scans a set while
others change it; `held` records which keys have been there since its first
call.  A call of `sscan` fills the reply array like `lrange`: `Added` counts the
cells, the cursor's own first, and `ArrLen` is their number modulo `ArrCap`, which
the loop tests and which says what the client receives.  `wrapped` records that a
call has overflowed it: the members that were written over are not received, and
a member may be read as the cursor (`CursorRead`).  A set that is not there
answers cursor 0 (`sscan_absent`).  `KeyMap` is the abstract specification: a map, and whether each operation
found its key.  In `LinkedList` a list stands for the head in it; `seq` is a
history variable with what each list should hold, and `RingsClosed` says that the
pointers agree with it in both directions.

## Runs

Runs that must pass:

| Run | Question | Bounds |
|---|---|---|
| `lists` | Do lists vanish when empty, do replies tell the change, do the loops over offsets, counts and pivots compute what reference definitions say? | 2 keys, 2 elements, lists of 3, offsets -4..3 (beyond both ends); `ArrCap` 2, so that ranges of one, two and three fit, leave nothing and leave one; blocking pops name one key |
| `wild` | Is a request answered twice, or a wakeup missed, with jobs that feed one another, errors, stale arrays, freed strings and clients that leave at any time? | 3 clients with one request each on 2 descriptors, so that numbers are reused and run out |
| `move` | Is an element lost or delivered twice, do answers reach their own client, and is a `brpoplpush` answered the element it moved? | 2 clients with 2 requests each; `brpoplpush` is the blocking command |
| `live_jobs` | Do timed waits end, and are jobs served while their key exists, also if another job has pushed to it? | 3 clients with one request each; 3 keys, one of which never exists |
| `live_sockets` | Is every request read, connection accepted, descriptor of a client that left nothing unread closed? | 2 clients with 2 requests, which exit at any time, also before they read a reply; 3 descriptors ready, 2 events at a time |
| `dict` | Is the table a map, with renames within and between chains? Is `entry_num` off by the renames and nothing else, does `randomkey` answer, is a scan complete? | 4 keys, one and three of them with the same hash, 4 slots, 2 renames not counted; counts -1, 1 and 2; `ArrCap` 4, which the cursor and three members reach |
| `rings` | Do the pointers form the right rings? | 2 lists, 4 entries |
| `strings` | Do `len` and `free` ever claim too much, does old memory show, do `getrange`, `getbit`, `bitcount` and `parse_args` compute what they should? | chars of 3 bits, strings of 5, `MinLen` 3, values of 0, 1, 2 and 4 bytes |
| `data` | Are counters exact at both ends, do failures change nothing, who leaves empty collections, does the set algebra free what it borrows, do arrays and counts tell the truth? | 2 keys, 2 fields, integers -2..1, of which `"%d"` prints -1 and 0; arrays of 3 |

Three clients are the fewest with which one job can feed a second while a third
client interferes; two keys are the fewest for a move.  A list of three has a
head, a tail and an inner element.  Three of four keys with one hash make a chain
with a head, an inner entry and an end, beside another chain and empty slots;
`MaxDrift` bounds the renames that are not counted.  Strings of 5 bytes outgrow
the memory a string begins with (3), floats do and integers do not, and the
offsets of `setbit` and `setrange` fall into the string, after its end and
beyond its memory; -4 with one byte cannot be allocated and -1 writes before the
string.  A hash with both fields fills four cells, as many as `ArrCap`: `hgetall`
of it overflows the length.  `EventLoop` has the true `ArrCap` of 256: no list of its
runs is that long, and `lists` is about what happens then.  `CHECK_DEADLOCK FALSE`
is said where the system may stop: the server has died or a command does not
return (`wild`, `lists`, `dict`, `data`, `strings`), and in the runs under fairness,
where stopping is what the properties are about.

Runs that find a disagreement between the code and what it or its README says:

| Run | Shows |
|---|---|
| `many_keys` | `blpop k1 k2` empties `k2` and removes `k1`; the empty list stays |
| `killed` | the answer to a client that left goes to the next one with its descriptor |
| `late_pop` | a hanging `blpop` is answered from strings that have been freed |

They also tell what the passing runs leave out and why: `lists` has one key per
blocking pop, `move` no `blpop` and no client that leaves while it waits.  Each
of these restrictions is a constant (`MaxBlockKeys`, `Request`, `ExitWhen`), and
the run that lifts it is in the table.

The models follow the code in more places where it does something other than
its comments or Redis.  Most have no run of their own: a property says exactly
how far the code keeps the promise.

Lists and replies:

* `rpoplpush` and `brpoplpush` check the type of the destination after the pop, and
  on that error path free an argument for the second time (`"doublefree"`);
* `lpushx` and `rpushx` forward to `lpush` and `rpush`, so that they create lists;
  `_lpushxrpushx_command` is never called;
* `process_request` replies the array after any blocking command that did not
  block, and so overwrites the error the command has made;
* `_rply_arr_len` has 8 bits and is compared with 1024: an array of 256 cells is
  replied as an empty one, a longer one as its last cells, and `E_TOO_LONG` is never
  returned (`RangesAgree` says it of `lrange`, `ArraysAgree` of the commands of
  `DataCommands`).
  `sscan` then loses members, and may answer one of them for the cursor
  (`ScanComplete` is about scans without that);
* a client that exits before it reads a reply resets its connection; the read
  fails, the handler does not close, and the descriptor stays open for ever
  (`DescriptorsClosed` is about the other clients);
* `lrem` negates a negative count, which overflows for the smallest integer: the
  models have no widths here, so that no property covers it.

Keys, numbers and hashes:

* `dict_rename` counts an entry out and not in again, so that `randomkey` can answer
  nil beside a key, or draw for ever (`NumCounts`, `RandomAnswers`);
* `decrby` of a missing key prints with `"%d"`: what is stored and what is replied
  differ beyond 32 bits; `decrby` by the smallest integer negates it
  (`CountersExact` leaves out these two);
* `hincrby` and `hincrbyfloat` that refuse the amount leave an empty hash
  (`FailureChangesNothing`, `EmptiedOnlyBy`);
* `hsetnx` replies `OK` for a new field of an old hash, 1 for one of a new hash;
* the callback of `hgetall` returns nothing (`goes_on`).

Sets:

* `smove` and `spop` leave empty sets (`EmptiedOnlyBy`), and `spop` from one never
  returns;
* `smove` to a missing destination and `srandmember` use a pointer that was never
  set; `spop` and `srandmember` with a count are empty functions, so that the
  client gets an earlier reply.

Strings:

* an append that does not fit never succeeds: `if(NULL == result);` makes the
  return of `NULL` unconditional, and the command reads the length from it;
* `setbit` beyond the memory of a string loses its bytes;
* `setrange` within the memory and beyond the end shows what was there before;
* `bitcount` reads before its table for a byte with the highest bit set;
* an offset of -1 of `setbit`, `getbit` and `setrange` is a byte before the string.

### Fairness

`FairSpec` is weakly fair to the server as a whole: `main_loop` never ends, and
`epoll_wait` returns after a second at the latest.  It is strongly fair to
`job_timeout`: time passes, so a job with a timeout is not visited for ever
without being late.  Nothing is assumed of the clients.

## Proofs

`EventLoopProofs` proves, for any sets of clients, keys, descriptors and
requests and any bounds that satisfy `ConstantsAssumption`:

* `TypeCorrect`: `Spec => []TypeOK`.  One lemma per command says that its result
  has the right form; these give the same of `process_request`, and so of the
  steps that call it.
* `AnswersOnce`: `Spec => []AnsweredOnce`.  The property is not inductive: a new
  request could have the id of an old one.  `AnswerInv` adds `IdsSent`: ids that
  are unread, hang or are answered have been sent by their client.
* `NoWakeupMissed`: `Spec => []NoMissedWakeup`.  The property speaks of the moment
  the loop goes to sleep; `WalkInv` adds `WalkedPast`, the same of the part of the
  list that the walk has passed, and that jobs are blocking requests.  Serving a
  job removes keys and creates at most the destination of a `brpoplpush`, which
  `fed` records.
* `RepliesAreOwn`: if `"waiting" \notin ExitWhen`, `Spec => []OwnReply`.  `LockInv`
  adds `LockStep`: each client has one request under way at most, and while it
  hangs the client is there and its descriptor open, so that the number in the
  job still means the same connection.  The run `killed` shows that the
  assumption is needed.

`DeliveryProofs` proves more of the event loop, under two hypotheses on what the
clients do.  Each is a restriction that a run shows to be needed.

* `RequestsLive`: if `"waiting" \notin ExitWhen`, `Spec => LivesOn`, the refinement
  of `Requests`.  `LifeInv` adds to `LockInv` that a connection has one unread
  request at most, that what is asked has been sent, and that nothing is lost
  while the server runs.  Every step is then a step of one request, or of none;
  where the server dies, it loses the request at hand or none.
* `ElementsAccounted` and `RepliesHonest`: if `MovesOnly`, `Spec => []ElementAccounted`
  and `Spec => HonestReply`.  `MovesOnly` says that no request is `set` or `del`,
  which destroy elements, and none `blpop` or `brpop`, whose late answers are read
  from freed strings (run `late_pop`).  Clients may leave while they wait.
  `MoveInv` says of the keyspace that keys hold lists that are not empty and that
  no element is in two places (`Sound`), and of each element that it is stored or
  has one taker (`Accounted`).  What a command does to these is one lemma per command; a
  count of takers and places follows only at the end.  `HonestReply` is about steps:
  it ties the answer of a `brpoplpush` to the one element that the same step has
  taken from the end of its source and put before its destination (`Moved`).  `Told`
  says the same of what a command or a job hands to the reply, and that nothing
  else writes an answer is what remains.
* `ServerLives`: under both hypotheses, so without `set`, `blpop` and `brpop` and with
  clients that stay for their answers, `Spec => []ServerSurvives`.  `LiveInv` is
  both invariants and the property: then nothing stale is replied, and nobody
  writes to a connection that was reset, since its client would have to have left
  while its request was unread or hung (`NoPipe`).

`ListProofs` proves, for any keys and elements, any offsets, and lists of any
length, what the run `lists` checks of lists of three:

* `TypeCorrect`: `Spec => []TypeOK`.  One lemma per command says three things of its
  result: that it is typed, that it has no empty list if there was none, and how
  much longer the lists together have become (`Grows`).  The other theorems about
  steps use the same lemmas, through `StepDone`.
* `NoneEmpty`: if `MaxBlockKeys <= 1`, `Spec => []NoEmptyList`.  The run `many_keys`
  shows that the hypothesis is needed.
* `RepliesAlwaysTell`: if there are finitely many keys, `Spec => ReplyTellsChange`.
  Commands change one list, or two one after the other, so that a move from a key
  to itself needs no case of its own; that the sum over all keys changes by as
  much as one of its terms is `SumMoves` of `Lemmas`.
* `RemAlwaysAgrees`, `InsertAlwaysAgrees` and `RangesAlwaysAgree`: the loops compute
  what the reference definitions say.  The pass of `lrem` is a fold whose invariant
  says what has been kept and how many have been counted after each element
  (`PassedTo`); a negative count is the mirror image of a positive one
  (`RanksMirror`); the positions that `lrange` takes are an interval, and a range longer than the reply array
  length can count leaves the remainder of its cells (`FilledIs`).

`DictProofs` proves, for any keys, values and hash function and any number of
slots:

* `TypeCorrect`, `ChainsAlwaysSound`, `NumAlwaysCounts` and `RandomKeyAnswers`.  The
  inductive invariant `TableInv` is the first three properties and that only
  finitely many keys are there, without which their number could not be counted
  up and down.
* `ScansComplete`: `Spec => []ScanComplete`.  The property speaks of the end of a
  scan; `ScanInv` adds `ScanSoFar`, the same of the slots that have been passed.  A
  call whose array has not overflowed has sent every key of its slots, for any
  `COUNT` (`AllSent`): the place of a key among the cells is at most their number.
* `DictIsMap`: `Spec => IsMap`, the refinement of `KeyMap`.  Under `TableInv` every
  operation on a chain is the operation of the map on its key; `rename` within a
  chain and between two are the cases to look at.

`LinkedListProofs` proves, for any lists and entries, `TypeCorrect`,
`RingsAlwaysClosed` and `NumAlwaysCounts`.  The properties follow a walk along the
pointers; `RingInv` states the same edge by edge: neighbours in `seq` point to each
other (`Closed`), no entry is in two lists (`Apart`), and `num` is the length
(`Counted`).  An insertion replaces one edge by two and a removal two by one; a
move is a removal and an insertion.

`DataProofs` proves, for any keys and fields, any arguments, and any width of the
integers that satisfies the assumptions of `DataStore`:

* `TypeCorrect`, `NoMemberFreed`, `FailuresChangeNothing` and `EmptiedOnlyByThese`.
  `TableInv` says that every object is well formed and that finitely many keys
  hold one; the number of keys itself is not bounded.  Commands with several
  arguments are folds, and a lemma says of each what all its steps keep: an
  induction over the steps, stated as the absence of a least counterexample.
* `CountersAlwaysExact`: the test for an overflow in the code, made with numbers
  that wrap, finds exactly the sums that do not fit.
* `RepliesAlwaysTellChange`: the count of a fold is the number of members it has
  added or removed, so that a repeated argument counts once.
* `ArraysAlwaysAgree`, if there are finitely many keys and fields, so that the order
  of a table is a sequence.  The reply array is a fold of a counter that wraps
  (`WrapsOn`): up to the capacity it is the sequence it is filled from, beyond it
  the remainder is left (`ArrIs`).  A walk in any order meets each thing once
  (`WalkedIs`).  The temporary tables of `sunion`, `sdiff` and `sinter` own, after any
  number of sets, exactly the fields that the sets say (`UnitedIs`, `DiffedIs`,
  `IntersectedIs`).

`StringProofs` proves, for every `ByteBits`, `MinLen` and `Header`, every set of
values, texts and offsets and any content of fresh memory that satisfy
`BssAssumption` and `StringAssumption`:

* `TypeCorrect` and `RoomKeptAlways`: `Spec => []TypeOK` and `Spec => []RoomKept`.
  `StringInv` says of the string that is stored that it is `Sound`: `RoomKept` with
  a size of the memory for a witness, and with counters that are naturals, without
  which `free` could go below zero and make up for a `len` that is too large.
* `StringIsBytes`: `Spec => IsString`, the refinement of `ByteString`, from the same
  invariant.  One lemma per operation of `bss.c` says that from a sound string it
  makes a sound one, and which bytes that holds (`CreateHolds`, `SetHolds`,
  `AppendHolds`, `SetrangeHolds`, `SetbitHolds`, `CutHolds`); the places where a
  string is written one byte beyond its length, `[str EXCEPT ![len] = NUL]`, are
  what they are about.  One lemma per command then gives both the invariant and
  the step of `ByteString`.  `bss_cut_zero` finds the place it cuts at because a set
  of naturals has a least element; `bss_setbit` finds its bit although the code
  counts from 1 and rounds up where the specification divides (`BitPlace`).
* `ReadsAgreeAlways`: `Spec => []ReadsAgree`.  A bit has one place (`PlaceOf`), the
  places that `getrange` takes are an interval, and the sum that `bitcount` makes
  over the bytes is the number of bits in the first `m` of them, for each `m`
  (`BitSumIs`).
* `SentBackAlways`: `Spec => []SentBack`.  A trace has the states of the parser
  between the bytes (`IsTrace`); there is one for a word, one for quotes and one for
  a space, and they can be joined (`LeadsConcat`), so that no case is made of the
  order or the length of arguments.  For what cannot be sent, `ParseState` says what
  all states have in common: every argument has no quote in it or is a word.

Only model-checked: liveness, and anything with `ENABLED`, which are out of the
prover's reach (the runs `live_jobs` and `live_sockets`).

## Not modelled

* The byte layout of requests and replies, the limit of a megabyte on them, and
  the display of the client: text without state.
* The texts of numbers: which digits a sum has, signs and spaces that `strtoll`
  accepts, and the amounts `inf` and `nan`, which `strtold` takes for numbers.
  A float of more than 39 characters overflows the buffer it is printed to.
* The pattern of `keys`: which keys it fits is a parameter.  `sscan` never gets to
  its pattern, because the test for it repeats the one for `COUNT`.
* Numbers of arguments: too few or too many is an error reply before anything else,
  but for a blocking command without any, which reads its timeout from in front
  of the array, and a line of more than 1024 words, which overflows it.
* Builds with `NDEBUG`, in which `bss_add_sub` would not store its result: the
  `bss_set` is inside an assertion.
* `dict_expand`: the build does not define `DICT_RESIZE`.
* Memory exhaustion: most of the code does not check for it.
* `server/request.h` and `server/main.c_`, which nothing includes.

## Plan

Done, in this order because blocking is where the program is most at risk:
`ListStore`, `ListCommands`, `EventLoop` with its proofs, `Dict` with `KeyMap`,
`LinkedList`; then `Bss`, `StringCommands` with `ByteString`, `DataStore`,
`HashStore`, `SetStore`, `DataCommands`, `Requests`.  With these every command is
modelled.  Then the proofs: `DictProofs`, `DeliveryProofs`, `LinkedListProofs`,
`DataProofs`, `ListProofs` and `StringProofs`.  With these every safety property of
the runs is proved, under the hypotheses named above.

What could follow: the texts of numbers, so that `StringCommands` and `DataStore`
meet, and a network that cuts requests.
