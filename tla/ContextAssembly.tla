-------------------------- MODULE ContextAssembly --------------------------
(***************************************************************************)
(* One build_context request of ALTM against a store that other processes  *)
(* keep writing.  FTSRetrievalEngine asks several search channels one      *)
(* after the other, each with a read of its own, fuses their rankings and  *)
(* scores; the active window adds memories nobody asked for;               *)
(* SimpleContextFusion merges the two lists; SimpleContextGateway packs    *)
(* the result into a token budget and stores the text behind every         *)
(* retrieval marker (CCR), where memory_drilldown finds it later.          *)
(*                                                                         *)
(* A row is what the memory table holds now, a copy is the row as one      *)
(* channel read it.  The text index is searched in two steps: a query that *)
(* filters, then a read of every hit by id on another connection           *)
(* (Select, Fetch).  The other channels filter the copy they return, so    *)
(* filter and copy come from one read (Scan); the ones that read row by    *)
(* row are taken at once, rows being independent of each other.            *)
(*                                                                         *)
(* A memory is a number, its place in the order of ids.  A text stands for *)
(* its own hash.  Requests use the default layers and statuses, and no     *)
(* candidate limit.                                                        *)
(*                                                                         *)
(* The operators every specification has are named for this one            *)
(* (AssemblyInit, AssemblyNext, AssemblySpec), so that a module can extend *)
(* it together with another.                                               *)
(***************************************************************************)
EXTENDS Integers, Sequences, FiniteSets, Functions

CONSTANTS
  Memories,      \* ids, as numbers in the order of the ids
  Foreign,       \* memories of another session than the one asking
  Semantic,      \* memories of the layers L2, L3 and L4
  Personas,      \* memories of the layer L4
  LongTerm,      \* memories whose lifecycle state is LONG or PERMANENT
  Texts,         \* contents, each standing for its own hash
  Channels,      \* the search channels in order: "scan" or "index"
  RecallLimit,   \* limit of a search and of the recall
  Scale,         \* scores are counted in units of 1 / Scale
  ActiveLimit,   \* limit of the active window
  Budgets,       \* token budgets a request may carry
  MaxLength,     \* bound: characters of a rendered candidate
  CharsPerToken, \* 4 in the code
  TokenCounts,   \* tokenizers: tokens of the first n characters
  MaxWrites      \* bound: writes by other processes

ASSUME MemoriesAssumption ==
  /\ Memories \subseteq Nat
  /\ Foreign \subseteq Memories /\ Semantic \subseteq Memories
  /\ Personas \subseteq Semantic /\ LongTerm \subseteq Memories
ASSUME ChannelsAssumption == Channels \in Seq({"scan", "index"}) \ {<< >>}
ASSUME BoundsAssumption ==
  /\ RecallLimit \in Nat \ {0} /\ ActiveLimit \in Nat /\ Budgets \subseteq Nat
  /\ MaxLength \in Nat \ {0} /\ CharsPerToken \in Nat \ {0} /\ MaxWrites \in Nat
\* A common multiple of the divisors 61 to 60 + RecallLimit, such as their product.
ASSUME ScaleAssumption ==
  /\ Scale \in Nat \ {0}
  /\ \A rank \in 1..RecallLimit : Scale % (60 + rank) = 0
ASSUME CountsAssumption ==
  \A counts \in TokenCounts : counts \in [0..MaxLength -> Nat] /\ counts[0] = 0

VARIABLES
  rows,       \* memory_units by id
  ccr,        \* ccr_entries: marker -> original_text
  request,    \* the arguments of the request
  phase,      \* where build_context is
  channel,    \* the channel being searched
  hits,       \* ids the text index returned, not yet read
  scores,     \* fused reciprocal-rank scores by id
  copies,     \* memories[id]: the copy of the last channel that returned id
  candidates, \* the candidates, in order
  items,      \* the context items packed so far
  remaining,  \* remaining_tokens
  visible,    \* history: memories the session could see since the request began
  purged,     \* history: memories purged since their last item was packed
  writes      \* writes by other processes so far

assemblyVars == <<rows, ccr, request, phase, channel, hits, scores, copies,
          candidates, items, remaining, visible, purged, writes>>

Absent == [there |-> FALSE]
Statuses == {"active", "compressed", "tombstoned"}
Rows == [there : {TRUE}, status : Statuses, rejected : BOOLEAN, text : Texts]
Requests == [strict : BOOLEAN, window : BOOLEAN, budget : Budgets, tokenizer : BOOLEAN]
Candidates == [memory : Memories, row : Rows]

\* Faulty: the marker names the memory alone.
Marker_NoHash(m, text) == <<m>>

\* "memory://id#hash"
Marker(m, text) == <<m, text>>
Markers == {Marker(m, text) : m \in Memories, text \in Texts}

----------------------------------------------------------------------------
(* Which memories a request may see *)

\* memory_matches_recall_session
MatchesSession(m, row, strict) ==
  \/ m \notin Foreign
  \/ /\ ~strict
     /\ m \in Semantic
     /\ ~row.rejected

\* Faulty: the search of the cross-session layers forgets the review.
SearchAllows_NoReview(m, row, strict) ==
  /\ row.there
  /\ row.status # "tombstoned"
  /\ \/ m \notin Foreign
     \/ ~strict /\ m \in Semantic

\* The filter of every search channel.
SearchAllows(m, row, strict) ==
  /\ row.there
  /\ row.status # "tombstoned"
  /\ MatchesSession(m, row, strict)

\* _exclusion_reason of the active window is None
WindowAllows(m, row, strict) ==
  /\ row.there
  /\ m \in Semantic
  /\ row.status = "active"
  /\ ~row.rejected
  /\ m \in Foreign => ~strict /\ m \in LongTerm

\* What the session may see, whichever path finds it.
MaySee(m, row, strict) ==
  /\ row.there
  /\ row.status # "tombstoned"
  /\ m \in Foreign => ~strict /\ m \in Semantic /\ ~row.rejected

Seen(table, strict) == {m \in Memories : MaySee(m, table[m], strict)}

----------------------------------------------------------------------------
(* Ranking *)

\* The rankings of at most limit members of S a search may return.
Rankings(S, limit) ==
  UNION {{r \in [1..n -> S] : IsInjective(r)} : n \in 0..limit}

\* 1 / (60 + rank), exact: the code adds up floating-point numbers.
Weight(rank) == Scale \div (60 + rank)

\* The rank of the i-th unit: units of equal content share the first's rank.
RankOf(units, i) ==
  CHOOSE j \in 1..i : /\ units[j].row.text = units[i].row.text
                      /\ \A k \in 1..(j - 1) : units[k].row.text # units[i].row.text

\* reciprocal_rank_scores, one channel added
Scored(old, units) ==
  [m \in Memories |->
     old[m] + IF \E i \in DOMAIN units : units[i].memory = m
              THEN Weight(RankOf(units, CHOOSE i \in DOMAIN units : units[i].memory = m))
              ELSE 0]

\* memories[unit.id] = unit
Copied(old, units) ==
  [m \in Memories |->
     IF \E i \in DOMAIN units : units[i].memory = m
     THEN units[CHOOSE i \in DOMAIN units : units[i].memory = m].row
     ELSE old[m]]

\* The recall: by fused score, then by id; adjust_retrieval_score is zero for
\* a tombstoned copy.
Recallable == {m \in Memories : scores[m] > 0 /\ copies[m].status # "tombstoned"}
Before(m, n) == scores[m] > scores[n] \/ (scores[m] = scores[n] /\ m < n)

\* The first RecallLimit of them, in this order.
Recalled(ranking) ==
  /\ \A i, j \in DOMAIN ranking : i < j => Before(ranking[i], ranking[j])
  /\ \A m \in Recallable :
       \/ \E i \in DOMAIN ranking : ranking[i] = m
       \/ Len(ranking) = RecallLimit /\ \A i \in DOMAIN ranking : Before(ranking[i], m)

\* The subsequence of the elements that are in S.
Within(seq, S) ==
  LET taken[n \in 0..Len(seq)] ==
        IF n = 0 THEN << >>
        ELSE IF seq[n] \in S THEN Append(taken[n - 1], seq[n]) ELSE taken[n - 1]
  IN taken[Len(seq)]

\* Faulty: the two lists are joined without looking for duplicates.
Merged_Joined(recalled, active) == recalled \o active

\* SimpleContextFusion.merge: the recalled copy of a duplicate stays.
Merged(recalled, active) ==
  recalled \o Within(active,
    {c \in Candidates : \A i \in DOMAIN recalled : recalled[i].memory # c.memory})

----------------------------------------------------------------------------
(* Clipping a text of len characters to a budget, from a positive budget *)

Smaller(a, b) == IF a < b THEN a ELSE b
CharTokens(n) == (n + CharsPerToken - 1) \div CharsPerToken

\* ContextBudgeter._clip_by_char_estimate
ClipChars(len, budget) ==
  LET kept == Smaller(len, budget * CharsPerToken)
  IN [kept |-> kept, tokens |-> CharTokens(kept)]

\* Faulty: the search stops before it has looked at the last length.
Searched_Short(counts, budget, len) ==
  LET search[at \in (0..(len + 1)) \X (-1..len) \X (0..len)] ==
        LET low == at[1]  high == at[2]  best == at[3]
            mid == (low + high) \div 2
        IN IF low >= high THEN best
           ELSE IF counts[mid] <= budget THEN search[<<mid + 1, high, mid>>]
                                         ELSE search[<<low, mid - 1, best>>]
  IN search[<<0, len, 0>>]

\* The longest prefix the binary search of _clip_by_token_counter finds, from
\* low, high and best.
Searched(counts, budget, len) ==
  LET search[at \in (0..(len + 1)) \X (-1..len) \X (0..len)] ==
        LET low == at[1]  high == at[2]  best == at[3]
            mid == (low + high) \div 2
        IN IF low > high THEN best
           ELSE IF counts[mid] <= budget THEN search[<<mid + 1, high, mid>>]
                                         ELSE search[<<low, mid - 1, best>>]
  IN search[<<0, len, 0>>]

\* ContextBudgeter._clip_by_token_counter
ClipTokens(counts, len, budget) ==
  IF counts[len] <= budget
  THEN [kept |-> len, tokens |-> IF counts[len] < 1 THEN 1 ELSE counts[len]]
  ELSE LET kept == Searched(counts, budget, len)
       IN [kept |-> kept, tokens |-> counts[kept]]

----------------------------------------------------------------------------
AssemblyInit ==
  /\ rows \in [Memories -> {[there |-> TRUE, status |-> "active",
                             rejected |-> FALSE, text |-> t] : t \in Texts}]
  /\ ccr = << >>
  /\ request = [strict |-> TRUE, window |-> FALSE, budget |-> 0, tokenizer |-> FALSE]
  /\ phase = "idle"
  /\ channel = 1
  /\ hits = << >>
  /\ scores = [m \in Memories |-> 0]
  /\ copies = [m \in Memories |-> Absent]
  /\ candidates = << >>
  /\ items = << >>
  /\ remaining = 0
  /\ visible = {}
  /\ purged = {}
  /\ writes = 0

\* build_context is called.
Begin(asked) ==
  /\ phase \in {"idle", "done", "failed"}
  /\ request' = asked
  /\ phase' = "search"
  /\ channel' = 1
  /\ candidates' = << >>
  /\ items' = << >>
  /\ remaining' = asked.budget
  /\ visible' = Seen(rows, asked.strict)
  /\ purged' = {}
  /\ UNCHANGED <<rows, ccr, hits, scores, copies, writes>>

Allowed == {m \in Memories : SearchAllows(m, rows[m], request.strict)}

Units(ranking) == [i \in DOMAIN ranking |->
                     [memory |-> ranking[i], row |-> rows[ranking[i]]]]

\* A channel has returned these units.  When the last one has and nothing was
\* found, the LIKE search follows; it is one query, a scan of its own.
Return(units) ==
  /\ scores' = Scored(scores, units)
  /\ copies' = Copied(copies, units)
  /\ IF channel < Len(Channels)
     THEN channel' = channel + 1 /\ phase' = "search"
     ELSE /\ phase' = IF phase # "like" /\ \A m \in Memories : scores'[m] = 0
                      THEN "like" ELSE "rank"
          /\ UNCHANGED channel
  /\ UNCHANGED <<rows, ccr, request, candidates, items, remaining,
                 visible, purged, writes>>

\* A vector or graph channel, or the LIKE fallback: it returns the copies it
\* filtered.  The remote vector channel returns nothing when its service fails.
Scan ==
  /\ \/ phase = "search" /\ Channels[channel] = "scan"
     \/ phase = "like"
  /\ \E ranking \in Rankings(Allowed, RecallLimit) : Return(Units(ranking))
  /\ UNCHANGED hits

\* The query of search_fts and search_fts_trigram: filtered ids, by rank.
Select ==
  /\ phase = "search" /\ Channels[channel] = "index"
  /\ \E ranking \in Rankings(Allowed, RecallLimit) : hits' = ranking
  /\ phase' = "fetch"
  /\ UNCHANGED <<rows, ccr, request, channel, scores, copies, candidates,
                 items, remaining, visible, purged, writes>>

\* Its hits are read by id, whatever they have become; a purged one is left out.
Fetch ==
  /\ phase = "fetch"
  /\ Return(Units(Within(hits, {m \in Memories : rows[m].there})))
  /\ hits' = << >>

\* The rankings are fused, and the recall's variables end with it; without a
\* window the recall is the context.
Rank ==
  /\ phase = "rank"
  /\ \E ranking \in Rankings(Recallable, RecallLimit) :
       /\ Recalled(ranking)
       /\ candidates' = [i \in DOMAIN ranking |->
                          [memory |-> ranking[i], row |-> copies[ranking[i]]]]
  /\ phase' = IF request.window THEN "window" ELSE "pack"
  /\ scores' = [m \in Memories |-> 0]
  /\ copies' = [m \in Memories |-> Absent]
  /\ UNCHANGED <<rows, ccr, request, channel, hits, items, remaining,
                 visible, purged, writes>>

\* GlobalActiveWindowEngine.select reads the table once and returns the best
\* eligible memories, at most one of them a persona; its candidates are merged.
Window ==
  /\ phase = "window"
  /\ \E ranking \in Rankings({m \in Memories : WindowAllows(m, rows[m], request.strict)},
                             ActiveLimit) :
       /\ Cardinality({i \in DOMAIN ranking : ranking[i] \in Personas}) <= 1
       /\ candidates' = Merged(candidates, Units(ranking))
  /\ phase' = "pack"
  /\ UNCHANGED <<rows, ccr, request, channel, hits, scores, copies, items,
                 remaining, visible, purged, writes>>

\* put_ccr_entry: the memory must still be there, for the check as for the
\* foreign key; the text of the copy is stored.
Cached(entries, m, text) ==
  [k \in DOMAIN entries \union {Marker(m, text)} |->
     IF k = Marker(m, text) THEN text ELSE entries[k]]

CanCache(m) == rows[m].there

Next1 == candidates[Len(items) + 1]

\* One turn of the loop of assemble: the next candidate is compressed, its
\* text stored, and what was rendered is clipped to the remaining tokens.
Pack(len, counts) ==
  LET c == Next1
      clip == IF request.tokenizer THEN ClipTokens(counts, len, remaining)
                                   ELSE ClipChars(len, remaining)
  IN /\ phase = "pack" /\ Len(items) < Len(candidates) /\ remaining > 0
     /\ CanCache(c.memory)
     /\ ccr' = Cached(ccr, c.memory, c.row.text)
     /\ purged' = purged \ {c.memory}
     /\ IF clip.kept = 0
        THEN phase' = "done" /\ UNCHANGED <<items, remaining>>
        ELSE /\ items' = Append(items, [memory |-> c.memory, text |-> c.row.text,
                                        tokens |-> clip.tokens])
             /\ remaining' = remaining - clip.tokens
             /\ UNCHANGED phase
     /\ UNCHANGED <<rows, request, channel, hits, scores, copies, candidates,
                    visible, writes>>

\* put_ccr_entry raises because the memory is gone, or the headroom model
\* fails: the request raises.
PackFails ==
  /\ phase = "pack" /\ Len(items) < Len(candidates) /\ remaining > 0
  /\ phase' = "failed"
  /\ UNCHANGED <<rows, ccr, request, channel, hits, scores, copies, candidates,
                 items, remaining, visible, purged, writes>>

PackEnds ==
  /\ phase = "pack"
  /\ Len(items) = Len(candidates) \/ remaining <= 0
  /\ phase' = "done"
  /\ UNCHANGED <<rows, ccr, request, channel, hits, scores, copies, candidates,
                 items, remaining, visible, purged, writes>>

----------------------------------------------------------------------------
(* The other processes *)

\* A memory is written: tombstoned, rejected, revised, compressed, restored.
Write(m, row) ==
  /\ writes < MaxWrites
  /\ row # rows[m]
  /\ rows' = [rows EXCEPT ![m] = row]
  /\ visible' = visible \union Seen(rows', request.strict)
  /\ writes' = writes + 1
  /\ UNCHANGED <<ccr, request, phase, channel, hits, scores, copies, candidates,
                 items, remaining, purged>>

\* A memory is deleted for good; its entries follow it by foreign key.
Purge(m) ==
  /\ writes < MaxWrites
  /\ rows[m].there
  /\ rows' = [rows EXCEPT ![m] = Absent]
  /\ ccr' = [k \in {k \in DOMAIN ccr : k[1] # m} |-> ccr[k]]
  /\ purged' = purged \union {m}
  /\ writes' = writes + 1
  /\ UNCHANGED <<request, phase, channel, hits, scores, copies, candidates,
                 items, remaining, visible>>

\* Another request, or the compression run, compresses the memory as it is.
CompressElsewhere(m) ==
  /\ CanCache(m)
  /\ rows[m].there
  /\ ccr' = Cached(ccr, m, rows[m].text)
  /\ UNCHANGED <<rows, request, phase, channel, hits, scores, copies, candidates,
                 items, remaining, visible, purged, writes>>

AssemblyNext ==
  \/ \E asked \in Requests : Begin(asked)
  \/ Scan \/ Select \/ Fetch \/ Rank \/ Window
  \/ \E len \in 1..MaxLength, counts \in TokenCounts : Pack(len, counts)
  \/ PackFails \/ PackEnds
  \/ \E m \in Memories, row \in Rows : Write(m, row)
  \/ \E m \in Memories : Purge(m) \/ CompressElsewhere(m)

AssemblySpec == AssemblyInit /\ [][AssemblyNext]_assemblyVars

----------------------------------------------------------------------------
AssemblyTypeOK ==
  /\ rows \in [Memories -> Rows \union {Absent}]
  /\ \A k \in DOMAIN ccr : k \in Markers /\ ccr[k] \in Texts
  /\ request \in Requests \union
       {[strict |-> TRUE, window |-> FALSE, budget |-> 0, tokenizer |-> FALSE]}
  /\ phase \in {"idle", "search", "fetch", "like", "rank", "window", "pack",
                "done", "failed"}
  /\ channel \in 1..Len(Channels)
  /\ hits \in Seq(Memories) /\ Len(hits) <= RecallLimit
  /\ scores \in [Memories -> Nat]
  /\ copies \in [Memories -> Rows \union {Absent}]
  /\ candidates \in Seq(Candidates)
  /\ items \in Seq([memory : Memories, text : Texts, tokens : Nat])
  /\ remaining \in Nat
  /\ visible \subseteq Memories /\ purged \subseteq Memories
  /\ writes \in 0..MaxWrites

\* A memory the session could not see at any moment of the request is not in
\* its context, whichever of the channels found it and however old the copy
\* was: a tombstoned one, one of another session's own layers, one of another
\* session that the review rejected.  A rejected one of the session's own may be
\* recalled (recall_policy.py:16-34) and is only kept out of the active window
\* (active_window.py:235-238).
OnlyVisibleIsRecalled == \A i \in DOMAIN items : items[i].memory \in visible

\* The marker of an item retrieves the very text the item was rendered from
\* for as long as the memory is not purged, even if the memory was revised or
\* compressed since; and no entry outlives its memory, so that nothing of a
\* purged one can be retrieved (headroom.py:50, 001_initial.sql:594).
MarkersStand ==
  /\ \A i \in DOMAIN items :
       LET marker == Marker(items[i].memory, items[i].text)
       IN items[i].memory \notin purged =>
            marker \in DOMAIN ccr /\ ccr[marker] = items[i].text
  /\ \A m \in Memories, text \in Texts :
       Marker(m, text) \in DOMAIN ccr => rows[m].there

\* The tokens of the items packed.
Spent(packed) ==
  LET sum[n \in 0..Len(packed)] ==
        IF n = 0 THEN 0 ELSE sum[n - 1] + packed[n].tokens
  IN sum[Len(packed)]

\* The items take the candidates in order, each memory once and none passed
\* over for a later one, and never spend more than the budget
\* (gateway.py:41-62, fusion.py:32-41).
PackedInOrder ==
  /\ Len(items) <= Len(candidates)
  /\ \A i \in DOMAIN items : items[i].memory = candidates[i].memory
  /\ \A i, j \in DOMAIN items : items[i].memory = items[j].memory => i = j
  /\ remaining >= 0
  /\ remaining + Spent(items) = request.budget

\* Whatever is left of the budget, clipping the next candidate keeps it within
\* that: the longest prefix that fits when a longer text never counts fewer
\* tokens, and at least some prefix that fits otherwise (token_budget.py:81-103).
Rising(counts) == \A n \in 1..MaxLength : counts[n - 1] <= counts[n]
ClipIsLongest ==
  phase = "pack" /\ remaining > 0 =>
    \A counts \in TokenCounts, len \in 1..MaxLength :
      LET clip == ClipTokens(counts, len, remaining)
          fits == {n \in 0..len : counts[n] <= remaining}
      IN /\ clip.kept \in fits
         /\ clip.tokens <= remaining
         /\ Rising(counts) => \A n \in fits : n <= clip.kept

=============================================================================
