----------------------------- MODULE ChunkSplit -----------------------------
(***************************************************************************)
(* split_indexer_prefill_chunks (indexer.py): the two nested loops that    *)
(* pack prefill requests into chunks under a workspace bound and a logits  *)
(* bound, and cut a group that is still too large into runs of rows.       *)
(*                                                                         *)
(* Inputs are fixed at Init: n requests, their rows (qsl), their KV        *)
(* entries (cu), workspace_size and max_logits_bytes \div 4 (elems).       *)
(***************************************************************************)
EXTENDS PrefillPlan

CONSTANTS Counts,     \* request counts explored
          Rows,       \* values query_start_loc may take
          Entries,    \* values the cumulative KV lengths may take
          Workspaces, \* values of workspace_size
          Budgets     \* values of max_logits_elems

ASSUME SplitConstants == /\ Counts \subseteq Nat \ {0}
                         /\ Rows \subseteq Nat
                         /\ Entries \subseteq Nat
                         /\ Workspaces \subseteq Nat
                         /\ Budgets \subseteq Nat

VARIABLES n, qsl, cu, workspace, elems, \* the call's inputs
          pc,                           \* "group", "slice" or "done"
          start, end,                   \* the group: requests start .. end-1
          m, nk,                        \* chunk_m and chunk_n
          maxq, qoff,                   \* the sub-chunk loop
          chunks                        \* the list that is returned

inputs == <<n, qsl, cu, workspace, elems>>
vars   == <<n, qsl, cu, workspace, elems, pc, start, end, m, nk, maxq, qoff,
            chunks>>

\* Every prefill request has at least one query row; its compressed
\* context may be empty (seq_len // compress_ratio = 0).
Init == /\ n \in Counts
        /\ qsl \in [0 .. n -> Rows]
        /\ \A i, j \in 0 .. n : i < j => qsl[i] < qsl[j]
        /\ cu \in [0 .. n -> Entries]
        /\ \A i, j \in 0 .. n : i < j => cu[i] <= cu[j]
        /\ workspace \in Workspaces
        /\ elems \in Budgets
        /\ pc = "group"
        /\ start = 0 /\ end = 0
        /\ m = 0 /\ nk = 0
        /\ maxq = 0 /\ qoff = 0
        /\ chunks = << >>

\* Mutants of CanTake: the logits constraint forgotten; <= taken for <.
CanTakeAnyRows == /\ end < n
                  /\ nk + (cu[end + 1] - cu[end]) <= workspace

CanTakeStrictly == /\ end < n
                   /\ nk + (cu[end + 1] - cu[end]) < workspace
                   /\ (m + (qsl[end + 1] - qsl[end]))
                        * (nk + (cu[end + 1] - cu[end])) <= elems

\* The request at end fits beside the ones already in the group.
CanTake == /\ end < n
           /\ nk + (cu[end + 1] - cu[end]) <= workspace
           /\ (m + (qsl[end + 1] - qsl[end])) * (nk + (cu[end + 1] - cu[end]))
                <= elems

\* One iteration of the inner while that takes the request.
Take == /\ pc = "group"
        /\ CanTake
        /\ m' = m + (qsl[end + 1] - qsl[end])
        /\ nk' = nk + (cu[end + 1] - cu[end])
        /\ end' = end + 1
        /\ UNCHANGED <<inputs, pc, start, maxq, qoff, chunks>>

\* Mutants of Close: an empty group stays empty; query_off is not reset.
CloseEmpty == /\ pc = "group"
              /\ ~CanTake
              /\ maxq' = MaxQ(elems, m, nk)
              /\ qoff' = 0
              /\ pc' = "slice"
              /\ UNCHANGED <<inputs, start, end, m, nk, chunks>>

CloseKeepingOffset ==
         /\ pc = "group"
         /\ ~CanTake
         /\ IF end = start
              THEN /\ m' = qsl[end + 1] - qsl[end]
                   /\ nk' = cu[end + 1] - cu[end]
                   /\ end' = end + 1
              ELSE UNCHANGED <<m, nk, end>>
         /\ maxq' = MaxQ(elems, m', nk')
         /\ pc' = "slice"
         /\ UNCHANGED <<inputs, start, qoff, chunks>>

\* The inner while ends; a group that took nothing takes one request alone.
Close == /\ pc = "group"
         /\ ~CanTake
         /\ IF end = start
              THEN /\ m' = qsl[end + 1] - qsl[end]
                   /\ nk' = cu[end + 1] - cu[end]
                   /\ end' = end + 1
              ELSE UNCHANGED <<m, nk, end>>
         /\ maxq' = MaxQ(elems, m', nk')
         /\ qoff' = 0
         /\ pc' = "slice"
         /\ UNCHANGED <<inputs, start, chunks>>

\* Mutant of Slice: the last sub-chunk is not cut at the group's rows.
SliceUncapped == /\ pc = "slice"
                 /\ qoff < m
                 /\ chunks' = Append(chunks, Chunk(start, end, qoff, qoff + maxq))
                 /\ qoff' = qoff + maxq
                 /\ UNCHANGED <<inputs, pc, start, end, m, nk, maxq>>

\* One iteration of the sub-chunk loop.
Slice == /\ pc = "slice"
         /\ qoff < m
         /\ LET sub == IF maxq < m - qoff THEN maxq ELSE m - qoff
            IN  chunks' = Append(chunks, Chunk(start, end, qoff, qoff + sub))
         /\ qoff' = qoff + maxq
         /\ UNCHANGED <<inputs, pc, start, end, m, nk, maxq>>

\* Mutant of NextGroup: the next group skips a request.
NextGroupSkipping == /\ pc = "slice"
                     /\ qoff >= m
                     /\ start' = end + 1
                     /\ m' = 0 /\ nk' = 0
                     /\ pc' = IF end < n THEN "group" ELSE "done"
                     /\ UNCHANGED <<inputs, end, maxq, qoff, chunks>>

\* The group is sliced up: back to the outer while, which may end.
NextGroup == /\ pc = "slice"
             /\ qoff >= m
             /\ start' = end
             /\ m' = 0 /\ nk' = 0
             /\ pc' = IF end < n THEN "group" ELSE "done"
             /\ UNCHANGED <<inputs, end, maxq, qoff, chunks>>

Next == Take \/ Close \/ Slice \/ NextGroup

Spec == Init /\ [][Next]_vars /\ WF_vars(Next)
-----------------------------------------------------------------------------
(* Properties *)

TypeOK == /\ n \in Counts
          /\ qsl \in [0 .. n -> Rows] /\ cu \in [0 .. n -> Entries]
          /\ workspace \in Workspaces /\ elems \in Budgets
          /\ pc \in {"group", "slice", "done"}
          /\ start \in 0 .. n /\ end \in 0 .. n
          /\ m \in Nat /\ nk \in Nat /\ maxq \in Nat /\ qoff \in Nat
          /\ chunks \in Seq([start : 0 .. n, stop : 0 .. n, lo : Nat, hi : Nat])

\* The row after the last one some chunk has taken.
Covered == IF chunks = << >> THEN qsl[0]
           ELSE TokenEnd(qsl, chunks[Len(chunks)])

\* The chunks tile the prefill rows: no row is scored twice, none is left
\* with the -1 filler because two chunks leave a gap, and a chunk never
\* reaches beyond the rows of its own requests.
RowsTiled ==
  /\ \A k \in 1 .. Len(chunks) :
       /\ TokenStart(qsl, chunks[k]) =
            (IF k = 1 THEN qsl[0] ELSE TokenEnd(qsl, chunks[k - 1]))
       /\ TokenStart(qsl, chunks[k]) < TokenEnd(qsl, chunks[k])
       /\ TokenEnd(qsl, chunks[k]) <= qsl[chunks[k].stop]
  /\ pc = "done" => Covered = qsl[n]

\* The docstring's two limits.  What may exceed them: the workspace, by one
\* request alone; the logits budget, by a single row of one request.
WithinLimits ==
  \A k \in 1 .. Len(chunks) :
    LET c       == chunks[k]
        entries == cu[c.stop] - cu[c.start]
        alone   == c.stop = c.start + 1
    IN  /\ alone \/ entries <= workspace
        /\ (c.hi - c.lo) * entries <= elems \/ (alone /\ c.hi = c.lo + 1)

\* A chunk that starts past row 0 of its group is scored from the KV its
\* predecessor gathered (skip_kv_gather = query_slice.start > 0), so the
\* predecessor must be the same group, up to exactly that row; and only a
\* request standing alone is ever cut, whose KV fits one gather.
GatherPrecedesReuse ==
  \A k \in 1 .. Len(chunks) :
    LET c == chunks[k]
    IN  c.lo > 0 =>
          /\ k > 1
          /\ chunks[k - 1].start = c.start
          /\ chunks[k - 1].stop = c.stop
          /\ chunks[k - 1].hi = c.lo
          /\ c.stop = c.start + 1

\* The loop computes the closed-form plan, in which every group is the
\* longest that fits: the greedy loop never closes a group early.
ComputesPlan == pc = "done" => chunks = Plan(qsl, cu, n, workspace, elems)

\* The planner hands out every row: neither loop can spin (a sub-chunk of
\* no rows, a group of no requests).
Terminates == <>(pc = "done")

\* It implements the abstract hand-out of rows.
Tiling == INSTANCE RowTiling
            WITH first <- qsl[0], last <- qsl[n], handed <- Covered
HandsOutRows == Tiling!RTSpec
=============================================================================
