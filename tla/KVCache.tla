------------------------------ MODULE KVCache ------------------------------
(***************************************************************************)
(* The key and value cache of a language model: Llm and its generation       *)
(* strategies say in KVMeta what the next forward adds, removes and keeps,   *)
(* CPUAttention applies it to its KVCacheManager when the forward runs, and  *)
(* KVMeta::sync settles the account.                                         *)
(*                                                                          *)
(* Nothing is erased when it is asked for.  A rejected draft, a reset and an *)
(* erased range stay in the cache until the next forward, and what lies in   *)
(* the cache between two calls is read through the pending request.          *)
(*                                                                          *)
(* All layers do the same, so one stands for them; a key and its value lie   *)
(* at the same index, so one cell stands for both.  Keys come in blocks, so  *)
(* they have a few cells more than values: those hold no entry.  An entry is *)
(* the token whose forward wrote it, by number, and its position id.         *)
(***************************************************************************)
EXTENDS Integers, Sequences, SequencesExt

CONSTANTS Align,        \* hP: entries of a block of keys
          ExpandChunk,  \* mExpandChunk
          Limits,       \* mKVCacheSizeLimit, -1: none
          Prompts,      \* lengths of a prompt
          DraftLength,  \* mDraftLength
          MaxTokens,    \* tokens forwarded in a behaviour
          MaxMisuse     \* requests in a behaviour that the code does not support

ASSUME KVCacheAssumption ==
    /\ Align \in Nat \ {0} /\ ExpandChunk \in Nat /\ DraftLength \in Nat
    /\ Limits \subseteq Nat \cup {-1} /\ Prompts \subseteq Nat \ {0}
    /\ MaxTokens \in Nat /\ MaxMisuse \in Nat

VARIABLES config,       \* reuse_kv, speculative_type and the size limit
          meta,         \* KVMeta
          kv,           \* KVCacheManager
          allSeqLen,    \* LlmContext::all_seq_len
          forwarded,    \* history: tokens forwarded
          hist,         \* history: the entries that callers have not removed
          misused,      \* history: requests that the code does not support
          miscounted    \* history: was a range to be kept when the cache was last cleared?

vars == <<config, meta, kv, allSeqLen, forwarded, hist, misused, miscounted>>

Configs == [reuse : BOOLEAN, strategy : {"ar", "lookahead"}, limit : Limits]
RoundUp(n) == ((n + Align - 1) \div Align) * Align
RoundDown(n) == (n \div Align) * Align

\* an index of the cache that holds no entry
Hole == <<0, 0>>

-----------------------------------------------------------------------------
(* KVCacheManager.  Cells are indexed from 0; memory and file are empty when *)
(* they do not exist.                                                        *)

Nothing == [i \in {} |-> Hole]
Fresh(max) == [i \in 0..RoundUp(max) - 1 |-> Hole]
Cleared == [max |-> 0, len |-> 0, inDisk |-> FALSE, mem |-> Nothing, file |-> Nothing]

\* keySize + valueSize, for one head of one element
KVSize(max) == RoundUp(max) + max
Exceeds(max) == config.limit # -1 /\ KVSize(max) > config.limit
Cells(c) == IF c.inDisk THEN c.file ELSE c.mem

\* KVCacheManager::onAlloc
Alloc(n) ==
    LET max == n + ExpandChunk
    IN  IF Exceeds(max)
        THEN [Cleared EXCEPT !.max = max, !.inDisk = TRUE, !.file = Fresh(max)]
        ELSE [Cleared EXCEPT !.max = max, !.mem = Fresh(max)]

\* the copy of the old cells into larger ones
Grown(cells, max) == [i \in 0..RoundUp(max) - 1 |->
                        IF i \in DOMAIN cells THEN cells[i] ELSE Hole]

\* the file that is grown is not read back
Expanded_Lost(c, max) ==
    CASE ~Exceeds(max) -> [c EXCEPT !.max = max, !.mem = Grown(@, max)]
      [] Exceeds(max) /\ ~Exceeds(c.max) ->
            [c EXCEPT !.max = max, !.file = Grown(c.mem, max), !.mem = Nothing, !.inDisk = TRUE]
      [] OTHER -> [c EXCEPT !.max = max, !.file = Fresh(max)]
\* the memory is kept when the cache moves to disk
Expanded_Both(c, max) ==
    CASE ~Exceeds(max) -> [c EXCEPT !.max = max, !.mem = Grown(@, max)]
      [] Exceeds(max) /\ ~Exceeds(c.max) ->
            [c EXCEPT !.max = max, !.file = Grown(c.mem, max), !.inDisk = TRUE]
      [] OTHER -> [c EXCEPT !.max = max, !.file = Grown(@, max)]

\* expandKVCacheInMem, moveKVCacheFromMemToDisk, expandKVCacheInDisk: where the
\* cache was is told from its old size.
Expanded(c, max) ==
    CASE ~Exceeds(max) -> [c EXCEPT !.max = max, !.mem = Grown(@, max)]
      [] Exceeds(max) /\ ~Exceeds(c.max) ->
            [c EXCEPT !.max = max, !.file = Grown(c.mem, max), !.mem = Nothing, !.inDisk = TRUE]
      [] OTHER -> [c EXCEPT !.max = max, !.file = Grown(@, max)]

WithCells(c, cells) == IF c.inDisk THEN [c EXCEPT !.file = cells] ELSE [c EXCEPT !.mem = cells]

\* The entry at index i.  A row of values ends at max: what a copy of whole
\* blocks reads behind it is the start of another row or lies past the buffer.
Row(c, i) == IF i < c.max THEN Cells(c)[i] ELSE Hole

\* Moves whole blocks: what is kept, from "from" on, goes to the first block
\* that starts at or after "start", if it starts in a later block.
Compacted(c, start, from, size) ==
    LET src == RoundDown(from)
        dst == RoundUp(start)
        moved == RoundUp(from + size) - src
        cells == Cells(c)
    IN  IF src <= dst THEN [c EXCEPT !.len = start + size]
        ELSE [WithCells(c, [i \in DOMAIN cells |->
                              IF i \in dst..dst + moved - 1 THEN Row(c, i - dst + src)
                              ELSE cells[i]])
                EXCEPT !.len = start + size]

Reserved(m) == IF m.reserve = <<>> THEN 0 ELSE m.reserve[2]

\* the entries of the cache once the forward has run
Needed(m) == m.previous + m.add - m.remove + Reserved(m)

\* KVCacheManager::onRealloc
Realloc(c, m) ==
    LET e == IF Needed(m) > c.max THEN Expanded(c, Needed(m) + ExpandChunk) ELSE c
        start == c.len - m.remove
    IN  IF m.reserve = <<>> THEN [e EXCEPT !.len = start]
        ELSE Compacted(e, start, start + m.reserve[1], m.reserve[2])

\* KVCacheManager::onPushBack
PushBack(c, entries) ==
    [WithCells(c, [i \in DOMAIN Cells(c) |->
                     IF i \in c.len..c.len + Len(entries) - 1 THEN entries[i - c.len + 1]
                     ELSE Cells(c)[i]])
       EXCEPT !.len = @ + Len(entries)]

\* CPUAttention::onExecute: everything is removed, or what "remove" says
Attended(c, m, entries) ==
    PushBack(IF m.previous = m.remove THEN Alloc(m.add) ELSE Realloc(c, m), entries)

-----------------------------------------------------------------------------
(* Llm.                                                                     *)

NoMeta == [previous |-> 0, remove |-> 0, reserve |-> <<>>, add |-> 0]

\* the reserved entries are not counted
Synced_NoReserve(m) == [NoMeta EXCEPT !.previous = m.previous - m.remove + m.add]
\* KVMeta::sync
Synced(m) == [NoMeta EXCEPT !.previous = Needed(m)]

\* gen_position_ids: position ids go on from all_seq_len
Entries(n, from) == [i \in 1..n |-> <<forwarded + i, from + i - 1>>]

\* Llm::forwardVec of n tokens with meta m, after which some are rejected.  A
\* debug build ends where the asserted length is wrong; what a release build
\* does from there on is not modelled.
Forward(m, n, from, rejected) ==
    /\ forwarded + n <= MaxTokens
    /\ m.previous # m.remove => m.previous = kv.len
    /\ kv' = Attended(kv, [m EXCEPT !.add = n], Entries(n, from))
    /\ meta' = [Synced([m EXCEPT !.add = n]) EXCEPT !.remove = rejected]
    /\ forwarded' = forwarded + n
    /\ miscounted' = IF m.previous = m.remove THEN m.reserve # <<>> ELSE miscounted
    /\ UNCHANGED config

Init == /\ config \in Configs
        /\ meta = NoMeta
        /\ kv = Cleared
        /\ allSeqLen = 0
        /\ forwarded = 0
        /\ hist = <<>>
        /\ misused = 0 /\ miscounted = FALSE

\* reset and, unless reuse_kv, generate_init
Dropped(m) == [m EXCEPT !.remove = m.previous]

\* Llm::response: generate_init, and the forward of the prompt
Response(n) ==
    LET from == IF config.reuse THEN allSeqLen ELSE 0
    IN  /\ Forward(IF config.reuse THEN meta ELSE Dropped(meta), n, from, 0)
        /\ allSeqLen' = from + n
        /\ hist' = (IF config.reuse THEN hist ELSE <<>>) \o Entries(n, from)
        /\ UNCHANGED misused

\* a request of a caller, which the code supports or not
Request(supported) ==
    /\ misused' = IF supported THEN misused ELSE misused + 1
    /\ misused' <= MaxMisuse

\* a request waits for the next forward
Pending == meta.remove # 0 \/ meta.reserve # <<>>

\* ArGeneration::generate, one turn.  It drops what is to be removed, so there
\* should be nothing.
Decode ==
    /\ config.strategy = "ar" /\ forwarded > 0
    /\ Request(~Pending)
    /\ Forward([meta EXCEPT !.remove = 0], 1, allSeqLen, 0)
    /\ allSeqLen' = allSeqLen + 1
    /\ hist' = hist \o Entries(1, allSeqLen)

\* the arguments of updateContext are swapped
Advance_Generated(drafts, accepted) == accepted - 1
\* what LookaheadGeneration::generate adds to all_seq_len
Advance(drafts, accepted) == accepted

\* LookaheadGeneration::generate, one turn: the tokens are forwarded together,
\* and what follows the last accepted one is rejected.
Verify(drafts, accepted) ==
    /\ config.strategy = "lookahead" /\ forwarded > 0
    /\ Forward(meta, drafts, allSeqLen, drafts - accepted)
    /\ allSeqLen' = allSeqLen + Advance(drafts, accepted)
    /\ hist' = hist \o SubSeq(Entries(drafts, allSeqLen), 1, accepted)
    /\ UNCHANGED misused

\* Llm::reset.  It leaves "reserve" as it is, so there should be nothing.
Reset ==
    /\ forwarded > 0
    /\ Request(meta.reserve = <<>>)
    /\ meta' = Dropped(meta)
    /\ allSeqLen' = 0
    /\ hist' = <<>>
    /\ UNCHANGED <<config, kv, forwarded, miscounted>>

\* Which erased ranges come out as they were asked for; eraseHistory accepts all.
\* The range is whole blocks ("Don't support not align reserve"), not at the front
\* unless all is erased, and nothing else waits for the next forward.
Supported(begin, end) ==
    \/ begin = 0 /\ end = meta.previous /\ meta.reserve = <<>>
    \/ /\ ~Pending
       /\ end # meta.previous =>
            config.reuse /\ begin > 0 /\ begin % Align = 0 /\ end % Align = 0

\* Llm::eraseHistory.  A range that reaches the end leaves "reserve" as it is.
EraseHistory(begin, end) ==
    /\ begin < end /\ end <= meta.previous
    /\ Request(Supported(begin, end))
    /\ meta' = [meta EXCEPT !.remove = meta.previous - begin,
                            !.reserve = IF end # meta.previous
                                        THEN <<end - begin, meta.previous - end>> ELSE @]
    /\ hist' = SubSeq(hist, 1, Min({begin, Len(hist)})) \o SubSeq(hist, end + 1, Len(hist))
    /\ UNCHANGED <<config, kv, allSeqLen, forwarded, miscounted>>

Next == \/ \E n \in Prompts : Response(n)
        \/ Decode
        \/ \E drafts \in 1..DraftLength + 1 : \E accepted \in 1..drafts : Verify(drafts, accepted)
        \/ Reset
        \/ \E begin, end \in 0..MaxTokens : EraseHistory(begin, end)

Spec == Init /\ [][Next]_vars
=============================================================================
