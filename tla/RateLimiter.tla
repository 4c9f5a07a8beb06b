----------------------------- MODULE RateLimiter -----------------------------
(***************************************************************************)
(* Bandwidth limits: the token buckets of crates/common/src/rate_limiter.rs *)
(* and their use by handle_submit_transfer                                  *)
(* (crates/server/src/network/connection.rs).                               *)
(*                                                                          *)
(* A transfer passes up to three buckets: the global one, its client's and  *)
(* its device's, each behind a lock of its own that is released in between. *)
(* It first checks all of them.  If all have enough tokens it tries to take *)
(* them one after the other, and gives back what it took when a later       *)
(* bucket has too few; either way it goes on.  Otherwise it sleeps and then *)
(* charges every bucket, as far as the tokens reach.                        *)
(*                                                                          *)
(* Tokens and bytes are integers, time is counted in ticks, and the refill  *)
(* each access computes from the elapsed time is done at the tick instead,  *)
(* which makes no difference to any access: min(t + r*e, max) composes.     *)
(* Buckets are created full when first needed, so they always exist here.   *)
(***************************************************************************)
EXTENDS Integers, Sequences, FiniteSets, FiniteSetsExt

CONSTANTS
  Sender,     \* connections, one transfer at a time each
  Bucket,     \* buckets that are configured
  Path,       \* sender -> its buckets in order: global, client, device
  Burst,      \* bucket -> burst_bytes
  Rate,       \* bucket -> bytes_per_second, here per tick
  Sizes,      \* the sizes of transfers, in bytes
  MaxTick     \* bound of the runs: the last tick

ASSUME LimiterAssumption ==
  /\ IsFiniteSet(Sender)
  /\ Path \in [Sender -> Seq(Bucket)]
  /\ \A c \in Sender : \A i, j \in DOMAIN Path[c] : Path[c][i] = Path[c][j] => i = j
  /\ Burst \in [Bucket -> Nat]
  /\ Rate \in [Bucket -> Nat \ {0}]
  /\ Sizes \subseteq Nat
  /\ MaxTick \in Nat

VARIABLES
  tick,     \* the time
  tokens,   \* bucket -> tokens in it
  transfer, \* sender -> its transfer
  charged,  \* history: sender -> buckets its transfer has been charged in
  paid      \* history: bucket -> tokens taken out of it and not given back

limiterVars == <<tick, tokens, transfer, charged, paid>>

\* pc: "idle", "check", "acquire", "refund", "sleep", "record", "pass"; "at"
\* is the next bucket of the path, "failed" the bucket that had too few.
NoTransfer == [pc |-> "idle", bytes |-> 0, at |-> 1, wait |-> 0, failed |-> 0]

LimiterInit ==
  /\ tick = 0
  /\ tokens = Burst
  /\ transfer = [c \in Sender |-> NoTransfer]
  /\ charged = [c \in Sender |-> {}]
  /\ paid = [b \in Bucket |-> 0]

AtMost(m, n) == IF m <= n THEN m ELSE n
AtLeast(m, n) == IF m >= n THEN m ELSE n
CeilDiv(m, n) == (m + n - 1) \div n

Here(c) == Path[c][transfer[c].at]
AtEnd(c) == transfer[c].at > Len(Path[c])

\* A failed try_acquire holds the lock of the bucket that had too few tokens
\* (or of the map the bucket is in) until it has given everything back.
BucketFree(c) ==
  \A d \in Sender \ {c} :
    transfer[d].pc = "refund" => transfer[d].failed # transfer[c].at

-----------------------------------------------------------------------------
(* One access to one bucket *)

WaitTime(b, bytes) == IF tokens[b] >= bytes THEN 0 ELSE CeilDiv(bytes - tokens[b], Rate[b])

TryConsume(b, bytes) ==
  /\ tokens[b] >= bytes
  /\ tokens' = [tokens EXCEPT ![b] = @ - bytes]
  /\ paid' = [paid EXCEPT ![b] = @ + bytes]

\* Mutant: what is given back may exceed the size of the bucket.
RefundUnbounded(b, bytes) ==
  /\ tokens' = [tokens EXCEPT ![b] = @ + bytes]
  /\ paid' = [paid EXCEPT ![b] = @ - bytes]

Refund(b, bytes) ==
  /\ tokens' = [tokens EXCEPT ![b] = AtMost(@ + bytes, Burst[b])]
  /\ paid' = [paid EXCEPT ![b] = @ - bytes]

Record(b, bytes) ==
  /\ tokens' = [tokens EXCEPT ![b] = AtLeast(@ - bytes, 0)]
  /\ paid' = [paid EXCEPT ![b] = @ + AtMost(tokens[b], bytes)]

-----------------------------------------------------------------------------
(* handle_submit_transfer *)

StartTransfer(c, bytes) ==
  /\ transfer[c].pc = "idle"
  /\ transfer' = [transfer EXCEPT ![c] = [NoTransfer EXCEPT !.pc = "check", !.bytes = bytes]]
  /\ charged' = [charged EXCEPT ![c] = {}]
  /\ UNCHANGED <<tick, tokens, paid>>

\* check: the longest of the waiting times.
CheckBucket(c) ==
  /\ transfer[c].pc = "check"
  /\ ~AtEnd(c)
  /\ BucketFree(c)
  /\ transfer' = [transfer EXCEPT
       ![c].at = @ + 1,
       ![c].wait = AtLeast(@, WaitTime(Here(c), transfer[c].bytes))]
  /\ UNCHANGED <<tick, tokens, charged, paid>>

CheckEnds(c) ==
  /\ transfer[c].pc = "check"
  /\ AtEnd(c)
  /\ transfer' = [transfer EXCEPT
       ![c].pc = IF transfer[c].wait = 0 THEN "acquire" ELSE "sleep",
       ![c].at = 1]
  /\ UNCHANGED <<tick, tokens, charged, paid>>

\* try_acquire, one bucket.
AcquireBucket(c) ==
  /\ transfer[c].pc = "acquire"
  /\ ~AtEnd(c)
  /\ BucketFree(c)
  /\ \/ /\ TryConsume(Here(c), transfer[c].bytes)
        /\ transfer' = [transfer EXCEPT ![c].at = @ + 1]
        /\ charged' = [charged EXCEPT ![c] = @ \cup {Here(c)}]
     \/ /\ tokens[Here(c)] < transfer[c].bytes
        /\ transfer' = [transfer EXCEPT ![c].pc = "refund", ![c].failed = transfer[c].at,
                                        ![c].at = 1]
        /\ UNCHANGED <<tokens, paid, charged>>
  /\ UNCHANGED tick

\* Mutant: the bucket that had too few is given the tokens as well.
RefundBucketToo(c) ==
  /\ transfer[c].pc = "refund"
  /\ transfer[c].at <= transfer[c].failed
  /\ BucketFree(c)
  /\ Refund(Here(c), transfer[c].bytes)
  /\ transfer' = [transfer EXCEPT ![c].at = @ + 1]
  /\ charged' = [charged EXCEPT ![c] = @ \ {Here(c)}]
  /\ UNCHANGED tick

\* The buckets before the one that had too few get their tokens back, in
\* the order they were charged.
RefundBucket(c) ==
  /\ transfer[c].pc = "refund"
  /\ transfer[c].at < transfer[c].failed
  /\ BucketFree(c)
  /\ Refund(Here(c), transfer[c].bytes)
  /\ transfer' = [transfer EXCEPT ![c].at = @ + 1]
  /\ charged' = [charged EXCEPT ![c] = @ \ {Here(c)}]
  /\ UNCHANGED tick

RefundEnds(c) ==
  /\ transfer[c].pc = "refund"
  /\ transfer[c].at = transfer[c].failed
  /\ transfer' = [transfer EXCEPT ![c].pc = "pass"]
  /\ UNCHANGED <<tick, tokens, charged, paid>>

AcquireEnds(c) ==
  /\ transfer[c].pc = "acquire"
  /\ AtEnd(c)
  /\ transfer' = [transfer EXCEPT ![c].pc = "pass"]
  /\ UNCHANGED <<tick, tokens, charged, paid>>

Wakes(c) ==
  /\ transfer[c].pc = "sleep"
  /\ transfer[c].wait = 0
  /\ transfer' = [transfer EXCEPT ![c].pc = "record"]
  /\ UNCHANGED <<tick, tokens, charged, paid>>

RecordBucket(c) ==
  /\ transfer[c].pc = "record"
  /\ ~AtEnd(c)
  /\ BucketFree(c)
  /\ Record(Here(c), transfer[c].bytes)
  /\ transfer' = [transfer EXCEPT ![c].at = @ + 1]
  /\ charged' = [charged EXCEPT ![c] = @ \cup {Here(c)}]
  /\ UNCHANGED tick

RecordEnds(c) ==
  /\ transfer[c].pc = "record"
  /\ AtEnd(c)
  /\ transfer' = [transfer EXCEPT ![c].pc = "pass"]
  /\ UNCHANGED <<tick, tokens, charged, paid>>

\* SubmitTransfer goes to the USB thread, whatever try_acquire said.
PassOn(c) ==
  /\ transfer[c].pc = "pass"
  /\ transfer' = [transfer EXCEPT ![c] = NoTransfer]
  /\ charged' = [charged EXCEPT ![c] = {}]
  /\ UNCHANGED <<tick, tokens, paid>>

Tick ==
  /\ tick < MaxTick
  /\ tick' = tick + 1
  /\ tokens' = [b \in Bucket |-> AtMost(tokens[b] + Rate[b], Burst[b])]
  /\ transfer' = [c \in Sender |->
       IF transfer[c].pc = "sleep" THEN [transfer[c] EXCEPT !.wait = AtLeast(@ - 1, 0)]
                                   ELSE transfer[c]]
  /\ UNCHANGED <<charged, paid>>

-----------------------------------------------------------------------------
TransferStep(c) ==
  \/ CheckBucket(c) \/ CheckEnds(c)
  \/ AcquireBucket(c) \/ AcquireEnds(c)
  \/ RefundBucket(c) \/ RefundEnds(c)
  \/ Wakes(c)
  \/ RecordBucket(c) \/ RecordEnds(c)
  \/ PassOn(c)

LimiterNext ==
  \/ \E c \in Sender : \/ \E bytes \in Sizes : StartTransfer(c, bytes)
                       \/ TransferStep(c)
  \/ Tick

LimiterSpec == LimiterInit /\ [][LimiterNext]_limiterVars

-----------------------------------------------------------------------------
(* Properties *)

\* The type invariant: no bucket is overdrawn or overfull.
LimiterTypeOK ==
  /\ tick \in 0 .. MaxTick
  /\ tokens \in [Bucket -> Nat]
  /\ \A b \in Bucket : tokens[b] <= Burst[b]
  /\ transfer \in [Sender -> [pc : {"idle", "check", "acquire", "refund", "sleep",
                                    "record", "pass"},
                              bytes : Nat, at : Nat, wait : Nat, failed : Nat]]
  /\ charged \in [Sender -> SUBSET Bucket]
  /\ paid \in [Bucket -> Nat]

TakenBy(b) == {c \in Sender : b \in charged[c] /\ transfer[c].pc \in {"acquire", "refund"}}

\* Tokens are never made out of nothing: what was ever taken from a bucket and
\* kept, together with what is in it, is at most the burst and the refills, and
\* what the transfers under way took is among it. Tokens given back while others
\* took theirs, and buckets that ran full in the meantime, are where this could go
\* wrong (try_consume, refund, refill and record of the three buckets).
TokensConserved ==
  \A b \in Bucket :
    /\ tokens[b] + paid[b] <= Burst[b] + Rate[b] * tick
    /\ MapThenSumSet(LAMBDA c : transfer[c].bytes, TakenBy(b)) <= paid[b]

===============================================================================
