----------------------------- MODULE MCKVCache -----------------------------
(* Properties of the key and value cache.                                   *)
EXTENDS KVCache

\* none; in memory first and moved to disk later; on disk from the start
MCLimits == {-1, 9, 2}

-----------------------------------------------------------------------------
(* The shape of the state; a cache is allocated once a token was forwarded.  *)
TypeOK ==
    /\ config \in Configs /\ misused \in 0..MaxMisuse /\ miscounted \in BOOLEAN
    /\ meta.previous \in Nat /\ meta.add = 0
    /\ meta.remove \in 0..meta.previous
    /\ meta.reserve # <<>> => /\ \A k \in 1..2 : meta.reserve[k] \in Nat \ {0}
                              /\ meta.reserve[1] + meta.reserve[2] <= meta.previous
    /\ kv.max \in Nat /\ kv.len \in 0..kv.max
    /\ allSeqLen \in 0..MaxTokens /\ forwarded \in 0..MaxTokens
    /\ forwarded > 0 => kv.max > 0

\* What the next forward will find of the cache before it adds to it.
Visible ==
    LET at(from, n) == [i \in 1..n |-> Cells(kv)[from + i - 1]]
        start == kv.len - meta.remove
    IN  at(0, start) \o (IF meta.reserve = <<>> THEN <<>>
                         ELSE at(start + meta.reserve[1], meta.reserve[2]))

(* The cache holds the entries that callers have not removed, in their       *)
(* order, through growth, moves to disk, rejected drafts and erased ranges,  *)
(* as long as all requests were of the kind that the code supports.          *)
HistoryKept == misused = 0 => Visible = hist

(* Whatever callers ask for, supported or not, what KVMeta believes to be    *)
(* cached is what is, with one exception: when the cache was last cleared    *)
(* (CPUAttention.cpp:311), a range to be kept was waiting, which sync counts *)
(* (llm.cpp:41) although nothing is left of it.                              *)
PreviousIsLength == ~miscounted => meta.previous = kv.len

(* Without the exception, as CPUAttention::onExecute asserts it of a request *)
(* that does not clear the cache (CPUAttention.cpp:315).  It does not hold.  *)
LengthAsserted == meta.previous # meta.remove => meta.previous = kv.len

(* Position ids increase along the history that callers asked for, and the   *)
(* next one is larger than all of it.                                        *)
PositionsIncrease ==
    /\ \A i \in 1..Len(hist) - 1 : hist[i][2] < hist[i + 1][2]
    /\ hist # <<>> => Last(hist)[2] < allSeqLen

(* The cache is in one place, which its size tells, and is as large as that; *)
(* what is in it fits, whatever callers ask for.  Its size is what was       *)
(* forwarded and a chunk at most, if all requests were supported.            *)
Placed ==
    /\ TypeOK
    /\ misused = 0 => kv.max <= MaxTokens + ExpandChunk
    /\ kv.max > 0 =>
        /\ kv.inDisk <=> Exceeds(kv.max)
        /\ DOMAIN kv.mem = IF kv.inDisk THEN {} ELSE 0..RoundUp(kv.max) - 1
        /\ DOMAIN kv.file = IF kv.inDisk THEN 0..RoundUp(kv.max) - 1 ELSE {}
=============================================================================
