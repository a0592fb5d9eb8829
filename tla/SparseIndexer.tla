--------------------------- MODULE SparseIndexer ---------------------------
(***************************************************************************)
(* The DSA (sparse attention) indexer of GLM-5.2: the metadata builder     *)
(* (indexer.py) and the indexer op (sparse_attn_indexer.py), driven by a   *)
(* scheduler that prefills prompts in pieces and decodes speculatively.    *)
(*                                                                         *)
(* Abstractions.  A block-table row is the request whose blocks it lists.  *)
(* An indexer KV entry is its place (layer, request, index) and whether it *)
(* is current, i.e. computed from a token the request still has; rejected  *)
(* drafts and the blocks of a finished request leave entries that are not. *)
(* The top-k choice among candidates is not modelled: a row of the top-k   *)
(* buffer holds the set of candidates it was chosen from, and which query  *)
(* row and which weight row it was scored with.  Rows and requests of a    *)
(* batch are numbered from 0, as in the code.                              *)
(***************************************************************************)
EXTENDS PrefillPlan, FiniteSets

CONSTANTS Reqs,        \* request slots
          NoReq,       \* the request of a padding row
          NumLayers,   \* indexer layers
          MaxLen,      \* bound: no request grows beyond this many tokens
          MaxPad,      \* bound: padding requests of a CUDA graph batch
          Prompts,     \* prompt lengths
          Deployments, \* [nextN, family100, ratio] the server is started with
          Workspace,   \* max_prefill_buffer_size (40 * max_model_len)
          Budgets      \* max_logits_bytes \div 4

ASSUME IndexerConstants ==
  /\ NoReq \notin Reqs
  /\ MaxLen \in Nat /\ MaxPad \in Nat
  /\ Prompts \subseteq 1 .. MaxLen
  /\ \A d \in Deployments : /\ d.nextN \in Nat \ {0} /\ d.ratio \in Nat \ {0}
                            /\ d.family100 \in BOOLEAN
  /\ Workspace \in Nat /\ MaxLen <= Workspace /\ Budgets \subseteq Nat
  /\ NumLayers \in Nat \ {0}

Layers == 1 .. NumLayers

VARIABLES nextN, flatten, ratio, elems, \* the builder, fixed at start
          prompt, len,                  \* prompt tokens, tokens with KV
          slack,                        \* drafts the CPU still counts
          kv,                           \* current KV entries, per layer
          batch,                        \* this step's requests and rows
          meta,                         \* the metadata build() returned
          pc, layer, next,              \* progress; next chunk to score
          ws,                           \* the shared gather workspace
          rows                          \* topk_indices_buffer

deploy == <<nextN, flatten, ratio, elems>>
vars   == <<nextN, flatten, ratio, elems, prompt, len, slack, kv, batch, meta,
            pc, layer, next, ws, rows>>
-----------------------------------------------------------------------------
(* Vocabulary *)

\* Running sums: Cumulative(f, n)[i] = f[0] + ... + f[i-1].
Cumulative(f, n) ==
  LET c[i \in 0 .. n] == IF i = 0 THEN 0 ELSE c[i - 1] + f[i - 1]
  IN  c

Largest(S)  == CHOOSE x \in S : \A y \in S : y <= x
Smallest(S) == CHOOSE x \in S : \A y \in S : x <= y

\* The workspace entry left by another user of the shared buffer.
Clobbered == <<0, NoReq, 0, FALSE>>

\* Reading KV entry i through the block-table row of request r.
Entry(l, r, i) == <<l, r, i, r # NoReq /\ i \in kv[l][r]>>

\* A row of the top-k buffer: scored from query row q with weight row w over
\* the candidates win; without candidates the kernels leave -1.
Filler == [q |-> -1, w |-> -1, win |-> {}]
Row(q, w, win) == IF win = {} THEN Filler ELSE [q |-> q, w |-> w, win |-> win]

\* The batch as the builder sees it.
N        == Len(batch.req)
Req(b)   == batch.req[b + 1]
QLen(b)  == batch.q[b + 1]
Qsl      == batch.qsl
SeqLen(b) == IF Req(b) = NoReq THEN 0 ELSE len[Req(b)] + QLen(b)
SeqLenUpper(b) == IF Req(b) = NoReq THEN 0 ELSE SeqLen(b) + slack[Req(b)]
RowReq(t) == CHOOSE b \in 0 .. N-1 : Qsl[b] <= t /\ t < Qsl[b + 1]

\* The answer row t must get: every entry of its own request up to its own
\* token, and no other; rows that only pad the batch get none.
Wanted(t) ==
  IF t >= Qsl[N] THEN Filler
  ELSE LET b   == RowReq(t)
           pos == len[Req(b)] + (t - Qsl[b])
       IN  Row(t, t, {<<layer, Req(b), i, TRUE>> :
                        i \in 0 .. ((pos + 1) \div ratio) - 1})
-----------------------------------------------------------------------------
(* Start *)

NoMeta == [nd |-> 0, ndt |-> 0, chunks |-> << >>]
NoBatch == [req |-> << >>, q |-> << >>, qsl |-> [i \in {0} |-> 0],
            tokens |-> 0]

\* The builder's __init__: which decode path the deployment takes.
Init == /\ \E d \in Deployments :
             /\ nextN = d.nextN
             /\ ratio = d.ratio
             /\ flatten = (~d.family100 /\ d.nextN \notin {1, 2})
        /\ elems \in Budgets
        /\ prompt \in [Reqs -> Prompts]
        /\ len = [r \in Reqs |-> 0]
        /\ slack = [r \in Reqs |-> 0]
        /\ kv = [l \in Layers |-> [r \in Reqs |-> {}]]
        /\ batch = NoBatch /\ meta = NoMeta
        /\ pc = "schedule" /\ layer = 1 /\ next = 1
        /\ ws = [i \in 0 .. Workspace-1 |-> Clobbered]
        /\ rows = << >>
-----------------------------------------------------------------------------
(* The scheduler (not under src/: modelled by what the builder is handed) *)

\* Rows a request may get in one step: a piece of its prompt, or its last
\* token followed by up to nextN - 1 drafts.
Piece(r) == IF len[r] < prompt[r]
              THEN 1 .. (prompt[r] - len[r])
              ELSE {q \in 1 .. nextN : len[r] + q <= MaxLen}

Orders == UNION {{s \in [1 .. k -> Reqs] : \A i, j \in 1 .. k :
                    i # j => s[i] # s[j]} : k \in 1 .. Cardinality(Reqs)}

\* A batch whose requests all have nextN rows runs as a full CUDA graph and
\* may be padded with empty requests; any other batch is not padded.
Schedule ==
  /\ pc = "schedule"
  /\ \E req \in Orders :
     \E q \in {f \in [1 .. Len(req) -> 1 .. MaxLen] :
                 \A i \in 1 .. Len(req) : f[i] \in Piece(req[i])} :
     \E pad \in 0 .. (IF \A i \in DOMAIN q : q[i] = nextN THEN MaxPad ELSE 0) :
       LET k   == Len(req) + pad
           qs  == [i \in 1 .. k |-> IF i <= Len(req) THEN q[i] ELSE 0]
           qsl == Cumulative([b \in 0 .. k-1 |-> qs[b + 1]], k)
       IN  batch' = [req |-> [i \in 1 .. k |->
                                IF i <= Len(req) THEN req[i] ELSE NoReq],
                     q |-> qs, qsl |-> qsl,
                     tokens |-> IF pad > 0 THEN k * nextN ELSE qsl[k]]
  /\ pc' = "build"
  /\ UNCHANGED <<deploy, prompt, len, slack, kv, meta, layer, next, ws, rows>>

\* A slot gets a new request: one finished, or was preempted.  Its blocks
\* keep their old contents.
Replace(r) ==
  /\ pc = "schedule"
  /\ len[r] > 0
  /\ prompt' \in {[prompt EXCEPT ![r] = p] : p \in Prompts}
  /\ len' = [len EXCEPT ![r] = 0]
  /\ slack' = [slack EXCEPT ![r] = 0]
  /\ kv' = [l \in Layers |-> [kv[l] EXCEPT ![r] = {}]]
  /\ UNCHANGED <<deploy, batch, meta, pc, layer, next, ws, rows>>

\* Mutant: the builder accepts decodes of unequal length on the native path.
AcceptUneven == FALSE

\* split_decodes_and_prefills: how many leading requests are decodes.  The
\* builder asks for uniform decodes unless it flattens them.
RequireUniform == ~flatten
NumDecodes ==
  LET all  == 0 .. N-1
      odd  == IF RequireUniform
                THEN {b \in all : QLen(b) # QLen(0)}
                ELSE {b \in all : QLen(b) > nextN}
  IN  IF \/ /\ \A b \in all : QLen(b) <= nextN
            /\ ~RequireUniform \/ nextN = 1
         \/ /\ RequireUniform /\ QLen(0) <= nextN
            /\ \A b \in all : QLen(b) \in {QLen(0), 0}
        THEN N
      ELSE IF QLen(0) > nextN THEN 0
      ELSE IF odd = {} THEN N ELSE Smallest(odd)
-----------------------------------------------------------------------------
(* build(): decode metadata *)

\* Mutant of UniformContext: a token does not count itself.
UniformContextShort(t, maxd) == SeqLen(t \div maxd) - maxd + (t % maxd)

\* Flatten path, every decode the same length: _prepare_uniform_decode_kernel.
UniformContext(t, maxd) == SeqLen(t \div maxd) - maxd + (t % maxd) + 1
UniformTable(t, maxd)   == Req(t \div maxd)

\* Flatten path, lengths that differ: repeat_interleave, and a zero tail.
VariableContext(t) ==
  IF t < Qsl[N] THEN LET b == RowReq(t)
                     IN  (SeqLen(b) - QLen(b) - Qsl[b]) + t + 1
  ELSE 0
VariableTable(t) == IF t < Qsl[N] THEN Req(RowReq(t)) ELSE NoReq

\* Native path: token j of request b, counted from the longest decode.
NativeContext(b, j, maxd) == SeqLen(b) - maxd + 1 + j

\* _prepare_decode_tensors and the compression that build() applies to its
\* result: context lengths ctx[b][j], block-table rows, decode lengths.
DecodeMeta(nd, ndt) ==
  LET lens   == {QLen(b) : b \in 0 .. nd-1}
      maxd   == Largest(lens)
      mind   == Smallest(lens)
      native == ~flatten /\ maxd <= nextN
  IN  IF ~native /\ maxd > 1
        THEN [size  |-> ndt, width |-> 1, pad |-> FALSE,
              lens  |-> [t \in 0 .. ndt-1 |-> 1],
              table |-> [t \in 0 .. ndt-1 |->
                           IF mind = maxd THEN UniformTable(t, maxd)
                           ELSE VariableTable(t)],
              ctx   |-> [t \in 0 .. ndt-1 |-> [j \in {0} |->
                          (IF mind = maxd THEN UniformContext(t, maxd)
                           ELSE VariableContext(t)) \div ratio]]]
        ELSE LET w == IF native /\ nextN > 1 THEN maxd ELSE 1
             IN  [size  |-> nd, width |-> w, pad |-> mind # maxd,
                  lens  |-> [b \in 0 .. nd-1 |-> QLen(b)],
                  table |-> [b \in 0 .. nd-1 |-> Req(b)],
                  ctx   |-> [b \in 0 .. nd-1 |-> [j \in 0 .. w-1 |->
                              (IF native /\ nextN > 1
                                 THEN NativeContext(b, j, maxd)
                                 ELSE SeqLen(b)) \div ratio]]]
-----------------------------------------------------------------------------
(* build(): prefill metadata *)

\* seq_len // compress_ratio, from the exact device lengths and from the
\* CPU's upper bound.
Compressed(b)      == SeqLen(b) \div ratio
CompressedUpper(b) == SeqLenUpper(b) \div ratio

\* The window of row offset o of request b inside a chunk whose entries of b
\* begin at ks: _build_prefill_chunk_metadata_kernel.
WindowEnd(b, ks, o) ==
  LET startPos == SeqLen(b) - QLen(b)
  IN  ks + (startPos + 1 + o) \div ratio

\* build_prefill_chunk_metadata for requests start .. stop-1, rows lo .. hi-1.
ChunkMeta(c) ==
  LET cnt   == c.stop - c.start
      cu    == Cumulative([b \in 0 .. cnt-1 |-> Compressed(c.start + b)], cnt)
      total == Cumulative([b \in 0 .. cnt-1 |->
                             CompressedUpper(c.start + b)], cnt)[cnt]
      first == Qsl[c.start] + c.lo
      last  == Qsl[c.start] + c.hi
  IN  [total |-> total, start |-> c.start, stop |-> c.stop, cu |-> cu,
       tokens |-> first .. last-1,
       skip |-> c.lo > 0,
       ks |-> [t \in first .. last-1 |-> cu[RowReq(t) - c.start]],
       ke |-> [t \in first .. last-1 |->
                 WindowEnd(RowReq(t), cu[RowReq(t) - c.start],
                           t - Qsl[RowReq(t)])]]

\* What split_indexer_prefill_chunks is called with for requests nd .. N-1,
\* which it numbers from 0.
PrefillRows(nd)    == [i \in 0 .. N - nd |-> Qsl[nd + i]]
PrefillEntries(nd) ==
  Cumulative([i \in 0 .. N - nd - 1 |-> CompressedUpper(nd + i)], N - nd)

\* The loop that keeps a chunk's metadata if there is any: for a chunk without
\* a compressed entry build_prefill_chunk_metadata returns None.
WithEntries(made) ==
  LET kept[k \in 0 .. Len(made)] ==
        IF k = 0 THEN << >>
        ELSE IF made[k].total > 0 THEN Append(kept[k - 1], made[k])
                                  ELSE kept[k - 1]
  IN  kept[Len(made)]

\* The chunks of the prefill requests nd .. N-1.
Chunks(nd) ==
  LET plan == Plan(PrefillRows(nd), PrefillEntries(nd), N - nd, Workspace, elems)
  IN  WithEntries([k \in 1 .. Len(plan) |->
                     ChunkMeta(Chunk(plan[k].start + nd, plan[k].stop + nd,
                                     plan[k].lo, plan[k].hi))])

\* What DeepseekV32IndexerMetadataBuilder.build returns.
Built ==
  LET nd  == NumDecodes
      ndt == IF nd = N THEN batch.tokens ELSE Qsl[nd]
  IN  IF nd > 0
        THEN [nd |-> nd, ndt |-> ndt, dec |-> DecodeMeta(nd, ndt),
              chunks |-> IF nd < N THEN Chunks(nd) ELSE << >>]
        ELSE [nd |-> 0, ndt |-> 0, chunks |-> Chunks(0)]

Build ==
  /\ pc = "build"
  /\ meta' = Built
  /\ pc' = "insert"
  /\ UNCHANGED <<deploy, prompt, len, slack, kv, batch, layer, next, ws, rows>>
-----------------------------------------------------------------------------
(* sparse_attn_indexer(): one call per layer *)

\* Mutants of NewEntries: numbered from one; the first token of a window
\* completes it.
NewEntriesFromOne(r) ==
  UNION {{(p + 1) \div ratio :
            p \in {x \in len[r] .. len[r] + QLen(b) - 1 : (x + 1) % ratio = 0}} :
         b \in {x \in 0 .. N-1 : Req(x) = r}}

NewEntriesEarly(r) ==
  UNION {{p \div ratio :
            p \in {x \in len[r] .. len[r] + QLen(b) - 1 : x % ratio = 0}} :
         b \in {x \in 0 .. N-1 : Req(x) = r}}

\* The entries the batch's own tokens complete; a token inside an
\* unfinished compression window has no slot.
NewEntries(r) ==
  UNION {{(p + 1) \div ratio - 1 :
            p \in {x \in len[r] .. len[r] + QLen(b) - 1 : (x + 1) % ratio = 0}} :
         b \in {x \in 0 .. N-1 : Req(x) = r}}

\* K of the batch goes into the cache, then every row is set to -1.
Insert ==
  /\ pc = "insert"
  /\ kv' = [kv EXCEPT ![layer] = [r \in Reqs |-> @[r] \cup NewEntries(r)]]
  /\ rows' = [t \in 0 .. batch.tokens-1 |-> Filler]
  /\ next' = 1
  /\ pc' = "prefill"
  /\ UNCHANGED <<deploy, prompt, len, slack, batch, meta, layer, ws>>

\* cp_gather_indexer_k_quant_cache: the chunk's requests side by side.  What
\* lies behind the exact lengths keeps its old contents.
Gathered(c) ==
  [i \in DOMAIN ws |->
     IF i < c.cu[c.stop - c.start]
       THEN LET b == CHOOSE x \in 0 .. (c.stop - c.start)-1 :
                       c.cu[x] <= i /\ i < c.cu[x + 1]
            IN  Entry(layer, Req(c.start + b), i - c.cu[b])
       ELSE ws[i]]

\* Mutant of Gathers: only the first layer gathers.
GathersOnce(c) == layer = 1 /\ ~c.skip

Gathers(c) == ~c.skip

\* One iteration of the prefill loop.
ScoreChunk ==
  /\ pc = "prefill"
  /\ next <= Len(meta.chunks)
  /\ LET c == meta.chunks[next]
     IN  /\ ws' = IF Gathers(c) THEN Gathered(c) ELSE ws
         /\ rows' = [t \in DOMAIN rows |->
                       IF t \in c.tokens
                         THEN Row(t, t, {ws'[i] : i \in c.ks[t] .. c.ke[t]-1})
                         ELSE rows[t]]
  /\ next' = next + 1
  /\ UNCHANGED <<deploy, prompt, len, slack, kv, batch, meta, pc, layer>>

\* The prefill loop is done (or there was none).
EndPrefill ==
  /\ pc = "prefill"
  /\ next > Len(meta.chunks)
  /\ pc' = IF meta.nd > 0 THEN "decode" ELSE "attend"
  /\ UNCHANGED <<deploy, prompt, len, slack, kv, batch, meta, layer, next, ws,
                 rows>>

\* The query row at place (b, j) of the decode kernel's input: packed to the
\* longest decode if lengths differ, else the rows reshaped.
DecodeQuery(b, j) ==
  LET d == meta.dec
  IN  IF d.pad
        THEN IF j < d.lens[b]
               THEN Cumulative(d.lens, d.size)[b] + j ELSE -1
        ELSE b * (meta.ndt \div d.size) + j

DecodeWidth == IF meta.dec.pad
                 THEN Largest({meta.dec.lens[b] : b \in 0 .. meta.dec.size-1})
                 ELSE meta.ndt \div meta.dec.size

\* Place (b, j) is scored over the first ctx[b][j] entries of its table row,
\* with the weight row of its padded place, and written to that buffer row.
\* The top-k kernel's scratch buffer is the gather workspace.
ScoreDecode ==
  /\ pc = "decode"
  /\ LET d == meta.dec
         w == DecodeWidth
     IN  rows' = [t \in DOMAIN rows |->
                    IF t < d.size * w
                      THEN LET b == t \div w
                               j == t % w
                           IN  Row(DecodeQuery(b, j), t,
                                   {Entry(layer, d.table[b], i) :
                                      i \in 0 .. d.ctx[b][j]-1})
                      ELSE rows[t]]
  /\ ws' = [i \in DOMAIN ws |-> Clobbered]
  /\ pc' = IF meta.dec.pad THEN "unpack" ELSE "attend"
  /\ UNCHANGED <<deploy, prompt, len, slack, kv, batch, meta, layer, next>>

\* unpack_seq_triton: the packed rows move back to their own places.
Unpack ==
  /\ pc = "unpack"
  /\ LET d  == meta.dec
         cu == Cumulative(d.lens, d.size)
     IN  rows' = [t \in DOMAIN rows |->
                    IF t < cu[d.size]
                      THEN LET b == CHOOSE x \in 0 .. d.size-1 :
                                      cu[x] <= t /\ t < cu[x + 1]
                           IN  rows[b * DecodeWidth + (t - cu[b])]
                      ELSE rows[t]]
  /\ pc' = "attend"
  /\ UNCHANGED <<deploy, prompt, len, slack, kv, batch, meta, layer, next, ws>>

\* Attention reads the buffer, and uses the shared workspace for its own
\* purposes, before the next layer's indexer runs.
Attend ==
  /\ pc = "attend"
  /\ ws' = [i \in DOMAIN ws |-> Clobbered]
  /\ IF layer + 1 \in Layers
       THEN layer' = layer + 1 /\ pc' = "insert"
       ELSE layer' = 1 /\ pc' = "sample"
  /\ UNCHANGED <<deploy, prompt, len, slack, kv, batch, meta, next, rows>>
-----------------------------------------------------------------------------
(* Sampling (not under src/): how many of each request's rows stand *)

\* Prompt rows always stand; of a decode's rows at least the first does.
\* The KV of rejected drafts stays in the cache and is no longer current.
Kept(b) == IF len[Req(b)] < prompt[Req(b)] THEN {QLen(b)} ELSE 1 .. QLen(b)

Sample ==
  /\ pc = "sample"
  /\ \E keep \in [0 .. N-1 -> 0 .. MaxLen] :
       /\ \A b \in 0 .. N-1 :
            keep[b] \in (IF Req(b) = NoReq THEN {0} ELSE Kept(b))
       /\ LET of(r) == {b \in 0 .. N-1 : Req(b) = r}
              kept(r) == keep[CHOOSE b \in of(r) : TRUE]
              lost(r) == QLen(CHOOSE b \in of(r) : TRUE) - kept(r)
          IN  /\ len' = [r \in Reqs |->
                           IF of(r) = {} THEN len[r] ELSE len[r] + kept(r)]
              /\ slack' = [r \in Reqs |->
                             IF of(r) = {} THEN slack[r] ELSE lost(r)]
  /\ kv' = [l \in Layers |-> [r \in Reqs |->
              {i \in kv[l][r] : (i + 1) * ratio <= len'[r]}]]
  /\ batch' = NoBatch /\ meta' = NoMeta /\ rows' = << >>
  /\ pc' = "schedule" /\ next' = 1
  /\ UNCHANGED <<deploy, prompt, layer, ws>>

Next == \/ Schedule \/ Build
        \/ Insert \/ ScoreChunk \/ EndPrefill \/ ScoreDecode \/ Unpack \/ Attend
        \/ Sample
        \/ \E r \in Reqs : Replace(r)

Spec == Init /\ [][Next]_vars
-----------------------------------------------------------------------------
(* Properties *)

TypeOK ==
  /\ prompt \in [Reqs -> Prompts] /\ len \in [Reqs -> 0 .. MaxLen]
  /\ slack \in [Reqs -> 0 .. MaxLen]
  /\ \A l \in Layers : \A r \in Reqs : kv[l][r] \subseteq 0 .. MaxLen-1
  /\ pc \in {"schedule", "build", "insert", "prefill", "decode", "unpack",
             "attend", "sample"}
  /\ layer \in Layers /\ next \in 1 .. Len(meta.chunks) + 1
  /\ DOMAIN ws = 0 .. Workspace-1
  /\ meta.nd <= N /\ meta.ndt <= batch.tokens

\* When attention reads the buffer, every row was scored from its own query
\* and weights over exactly the current entries of its own request up to its
\* own token: no draft that was rejected, no other request, no later token,
\* no missing row; and padding rows hold -1.
RowsExact ==
  pc = "attend" => \A t \in DOMAIN rows : rows[t] = Wanted(t)

\* A chunk that skips the gather finds its own requests' entries, of this
\* layer, in the shared workspace.
ReusedWorkspaceIsOwn ==
  (/\ pc = "prefill" /\ next <= Len(meta.chunks)
   /\ meta.chunks[next].skip)
  => LET c == meta.chunks[next]
     IN  \A i \in 0 .. c.cu[c.stop - c.start]-1 : ws[i] = Gathered(c)[i]

\* Between steps every layer's cache holds exactly the entries of the tokens
\* each request has: a later step that extends the prefix misses none, and
\* no rejected draft is taken for a token.
CommittedKV ==
  pc = "schedule" =>
    \A l \in Layers : \A r \in Reqs : kv[l][r] = 0 .. (len[r] \div ratio) - 1

\* The op implements the abstract promise: a row goes from -1 straight to its
\* answer and is never overwritten, not even for a moment by the padded
\* decode rows, which share the buffer with the prefill rows behind them.
Serving == pc \in {"prefill", "decode", "unpack", "attend"}
Exact == INSTANCE ExactRows
           WITH want <- IF Serving
                          THEN [t \in 0 .. batch.tokens-1 |-> Wanted(t)]
                          ELSE << >>,
                have <- IF Serving THEN rows ELSE << >>
RowsAnsweredOnce == Exact!XRSpec
=============================================================================
