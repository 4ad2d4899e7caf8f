----------------------------- MODULE MCEventLoop -----------------------------
(* Small instances of EventLoop for TLC. *)
EXTENDS EventLoop, TLC

CONSTANTS k1, k2, k3, c1, c2, c3

Req(op, keys, timed) == [op |-> op, keys |-> keys, timed |-> timed]

\* Jobs that feed one another, and every way for a command to fail or to leave
\* something stale behind.
WildRequests ==
    {Req("blpop", <<k1, k2>>, FALSE), Req("brpoplpush", <<k2, k1>>, TRUE),
     Req("blpop", <<k1>>, FALSE), Req("rpush", <<k2>>, FALSE),
     Req("set", <<k1>>, FALSE), Req("invalid", <<>>, FALSE)}

\* brpoplpush is the one blocking command whose late replies are sound.
MoveRequests ==
    {Req("brpoplpush", <<k1, k2>>, TRUE), Req("rpoplpush", <<k2, k1>>, FALSE),
     Req("lrange", <<k2>>, FALSE), Req("lpush", <<k1>>, FALSE),
     Req("rpop", <<k2>>, FALSE)}

\* Jobs with and without a timeout, one of which feeds the other, and what serves
\* them.  Nothing is ever pushed to k3.
LiveRequests ==
    {Req("brpop", <<k3, k1>>, FALSE), Req("brpoplpush", <<k2, k1>>, TRUE),
     Req("lpush", <<k2>>, FALSE)}

\* One blocking pop and what it waits for.
PopRequests == {Req("blpop", <<k1>>, FALSE), Req("rpush", <<k1>>, FALSE)}

\* Enough to keep the sockets busy.
SocketRequests == {Req("rpush", <<k1>>, FALSE)}

Symm == Permutations(Client)
=============================================================================
