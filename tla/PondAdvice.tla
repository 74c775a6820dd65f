------------------------------ MODULE PondAdvice ------------------------------
(***************************************************************************)
(* The compaction advice of PondMerge (analyze_compaction and              *)
(* poll_compaction_advice, src/src/core.cpp) over the heap of PondHeap.    *)
(*                                                                         *)
(* The owner context that allocates, frees and compacts also asks for      *)
(* advice, so no heap operation runs inside an analysis.  Other contexts   *)
(* borrow, end borrows, pause and resume at any time: an analysis first    *)
(* copies the counters, then reads borrow_count and state again for its    *)
(* verdict, and these are two steps here.  The per-pool cache of the last  *)
(* advice lives beside the heap; create_pool and destroy_pool do not touch *)
(* it.                                                                     *)
(*                                                                         *)
(* Bytes are counted in units of PM_ALIGNMENT, as in PondHeap.             *)
(***************************************************************************)
EXTENDS PondHeap

CONSTANTS
  Watched,    (* pools advice is asked about; others borrow and pause there *)
  Queries,    (* requests advice is asked about: payload sizes, 0 malformed *)
  Ceiling,    (* 2^PM_FL_MAX in units; init refuses a larger zone           *)
  Thresholds, (* CompactionThresholds that may be set: [ratio, min]         *)
  BorrowBound,(* bound of the model on the borrows held at once             *)
  AgeBound,   (* bound of the model on the owner's operations between two   *)
              (* answers, once it asks for advice                           *)
  EpochBound, (* bound of the model on structure_epoch (uint32_t)           *)
  NoAdvice

ASSUME AdviceAssumption ==
  /\ Watched \subseteq Pools
  /\ Queries \ {NoAdvice} \subseteq Nat /\ Ceiling \in Nat /\ Ceiling > Zone
  /\ Thresholds \subseteq [ratio : Nat, min : Nat] /\ Thresholds # {}
  /\ EpochBound \in Nat \ {0} /\ BorrowBound \in Nat /\ AgeBound \in Nat

PoolStates == {"Empty", "Running", "Paused"}
Verdicts   == {"INVALID_METADATA", "NO_ACTION", "COMPACT_RECOMMENDED", "COMPACT_BLOCKED",
               "COMPACT_UNLIKELY_TO_HELP"}

(* An advice, and the copy of it that the per-pool cache keeps.  -1 stands *)
(* for COMPACTION_ESTIMATE_UNKNOWN.                                        *)
CompactionAdvice ==
  [req : Queries, verdict : Verdicts, state : PoolStates, capacity : 0 .. Zone,
   used : 0 .. Zone, free : 0 .. Zone, live : Nat, borrows : Nat, fragment : 0 .. Zone,
   largest : 0 .. Zone, pinned : BOOLEAN, moves : Nat \cup {-1}, bytes : Nat \cup {-1}]
AdviceCache ==
  [verdict : Verdicts, state : PoolStates, epoch : 0 .. EpochBound, borrows : Nat,
   used : 0 .. Zone, free : 0 .. Zone, live : Nat, largest : 0 .. Zone, fragment : 0 .. Zone,
   pinned : BOOLEAN, req : Queries, thresholds : Thresholds]
Analysis == [pool : Watched, seen : CompactionAdvice]

ASSUME NoAdviceAssumption == NoAdvice \notin CompactionAdvice \cup AdviceCache \cup Analysis

VARIABLES
  paused,     (* pools in PoolState::Paused; the others are Running         *)
  held,       (* objects another context has borrowed                       *)
  epoch,      (* structure_epoch                                            *)
  thresholds, (* s_advice_thresholds                                        *)
  cache,      (* s_advice_cache: the change key of the last stored advice   *)
  told,       (* history: what the caller was last told about the pool      *)
  call,       (* the analysis the owner is in                               *)
  age         (* owner's operations since the last answer                   *)

side == <<paused, held, epoch, thresholds, cache, told, call, age>>
allvars == <<vars, side>>

borrow_count(p) == Cardinality(held \cap Residents(p))
state(p) == IF ~Exists(p) THEN "Empty" ELSE IF p \in paused THEN "Paused" ELSE "Running"
Idle == call = NoAdvice

-----------------------------------------------------------------------------
(* What an analysis sees *)

(* Mutant: the block header is forgotten. *)
WantsPayload(req) == IF req = NoAdvice THEN 0 ELSE Max({req, MinBlock})

(* need, by alloc's rounding rule; 0 without a request                     *)
Wants(req) == IF req = NoAdvice THEN 0 ELSE Max({req + 1, MinBlock})

(* A request alloc could never serve: size 0, or 2^PM_FL_MAX and above.    *)
Malformed(req) == req # NoAdvice /\ (req = 0 \/ Wants(req) >= Ceiling)

LargestFree(p) == Max({SizeAt(b) : b \in pool[p].bins} \cup {0})
FreeUnits(p) == Hi(pool[p]) - Lo(pool[p]) - pool[p].used

(* Mutant: a pinned block does not move the packing cursor. *)
EstimatePastPinned(p) ==
  FoldLeft(LAMBDA e, o :
             IF obj[o].pinned THEN e
             ELSE [cursor |-> e.cursor + obj[o].size,
                   moves  |-> e.moves + (IF obj[o].start # e.cursor THEN 1 ELSE 0),
                   bytes  |-> e.bytes + (IF obj[o].start # e.cursor THEN obj[o].size ELSE 0)],
           [cursor |-> Lo(pool[p]), moves |-> 0, bytes |-> 0], ByAddress(Residents(p)))

(* The one-pass simulation of compact's packing.                           *)
Estimate(p) ==
  FoldLeft(LAMBDA e, o :
             IF obj[o].pinned THEN [e EXCEPT !.cursor = obj[o].start + obj[o].size]
             ELSE [cursor |-> e.cursor + obj[o].size,
                   moves  |-> e.moves + (IF obj[o].start # e.cursor THEN 1 ELSE 0),
                   bytes  |-> e.bytes + (IF obj[o].start # e.cursor THEN obj[o].size ELSE 0)],
           [cursor |-> Lo(pool[p]), moves |-> 0, bytes |-> 0], ByAddress(Residents(p)))

CountersOk(p) ==
  LET cap == Hi(pool[p]) - Lo(pool[p])  P == pool[p] IN
  /\ P.used <= cap
  /\ P.fragment <= FreeUnits(p)
  /\ LargestFree(p) <= FreeUnits(p) - P.fragment
  /\ Cardinality(Residents(p)) = P.live

Stranded(p) == FreeUnits(p) - pool[p].fragment - LargestFree(p)

Fragmented(p) ==
  /\ Stranded(p) >= thresholds.min
  /\ Stranded(p) * 1000 >= thresholds.ratio * (Hi(pool[p]) - Lo(pool[p]))

(* The fields copied before the verdict is taken.                          *)
Sampled(p, req) ==
  [req |-> req, verdict |-> "INVALID_METADATA", state |-> state(p),
   capacity |-> Hi(pool[p]) - Lo(pool[p]),
   used |-> pool[p].used, free |-> FreeUnits(p), live |-> pool[p].live,
   borrows |-> borrow_count(p), fragment |-> pool[p].fragment,
   largest |-> LargestFree(p),
   pinned |-> \E o \in Residents(p) : obj[o].pinned,
   moves |-> Estimate(p).moves, bytes |-> Estimate(p).bytes]

Verdict(p, a) ==
  IF ~CountersOk(p) THEN "INVALID_METADATA"
  ELSE IF borrow_count(p) # 0 THEN "COMPACT_BLOCKED"
  ELSE IF a.req = NoAdvice THEN IF Fragmented(p) THEN "COMPACT_RECOMMENDED" ELSE "NO_ACTION"
  ELSE IF a.largest >= Wants(a.req) THEN "NO_ACTION"
  ELSE IF a.free - a.fragment >= Wants(a.req) THEN "COMPACT_RECOMMENDED"
  ELSE "COMPACT_UNLIKELY_TO_HELP"

(* The advice for a pool id without a pool.                                *)
Unknown(req) ==
  [req |-> req, verdict |-> "INVALID_METADATA", state |-> "Empty", capacity |-> 0,
   used |-> 0, free |-> 0, live |-> 0, borrows |-> 0, fragment |-> 0, largest |-> 0,
   pinned |-> FALSE, moves |-> -1, bytes |-> -1]

Advice(p, a) == IF Exists(p) THEN [a EXCEPT !.verdict = Verdict(p, a)] ELSE a

(* Mutant: borrow_count is left out of the key. *)
KeyWithoutBorrows(p, a) ==
  [verdict |-> a.verdict, state |-> a.state, epoch |-> IF Exists(p) THEN epoch[p] ELSE 0,
   used |-> a.used, free |-> a.free, live |-> a.live,
   largest |-> a.largest, fragment |-> a.fragment, pinned |-> a.pinned, req |-> a.req,
   thresholds |-> thresholds]

(* The change key poll compares.  The request stands for its size,         *)
(* alignment, flags and tag.                                               *)
Key(p, a) ==
  [verdict |-> a.verdict, state |-> a.state, epoch |-> IF Exists(p) THEN epoch[p] ELSE 0,
   borrows |-> a.borrows, used |-> a.used, free |-> a.free, live |-> a.live,
   largest |-> a.largest, fragment |-> a.fragment, pinned |-> a.pinned, req |-> a.req,
   thresholds |-> thresholds]

(* Everything in an advice but the move estimates.                         *)
Visible(a) == [a EXCEPT !.moves = 0, !.bytes = 0]

(* Whether poll reports the advice a as changed.                           *)
changed(p, a) == cache[p] # Key(p, a)

-----------------------------------------------------------------------------
(* The advice calls *)

Tick ==
  /\ Idle /\ age < AgeBound
  /\ age' = IF \E p \in Pools : cache[p] # NoAdvice THEN age + 1 ELSE 0

set_compaction_thresholds(t) ==
  /\ Tick
  /\ thresholds' = t
  /\ UNCHANGED <<vars, paused, held, epoch, cache, told, call>>

(* A malformed request is answered at once and leaves the cache alone.     *)
Analyze(p, req) ==
  /\ Idle
  /\ ~Malformed(req)
  /\ call' = [pool |-> p, seen |-> IF Exists(p) THEN Sampled(p, req) ELSE Unknown(req)]
  /\ UNCHANGED <<vars, paused, held, epoch, thresholds, cache, told, age>>

Answer ==
  /\ ~Idle
  /\ LET p == call.pool
         a == Advice(p, call.seen)
     IN /\ cache' = [cache EXCEPT ![p] = Key(p, a)]
        /\ told'  = [told EXCEPT ![p] = Visible(a)]
  /\ call' = NoAdvice /\ age' = 0
  /\ UNCHANGED <<vars, paused, held, epoch, thresholds>>

-----------------------------------------------------------------------------
(* Other contexts *)

Borrow(o) ==
  /\ obj[o].size > 0 /\ o \notin held /\ obj[o].pool \in Watched \ paused
  /\ Cardinality(held) < BorrowBound
  /\ held' = held \cup {o}
  /\ UNCHANGED <<vars, paused, epoch, thresholds, cache, told, call, age>>

EndBorrow(o) ==
  /\ o \in held
  /\ held' = held \ {o}
  /\ UNCHANGED <<vars, paused, epoch, thresholds, cache, told, call, age>>

Pause(p) ==
  /\ Exists(p) /\ p \notin paused
  /\ paused' = paused \cup {p}
  /\ UNCHANGED <<vars, held, epoch, thresholds, cache, told, call, age>>

Resume(p) ==
  /\ p \in paused
  /\ paused' = paused \ {p}
  /\ UNCHANGED <<vars, held, epoch, thresholds, cache, told, call, age>>

-----------------------------------------------------------------------------
(* The owner's heap operations, with the state and borrow checks PondHeap  *)
(* leaves out.  Pause and borrow checks of a refused maintenance operation *)
(* change only `paused`.                                                   *)

HeapCreate(n) ==
  /\ Tick /\ CreatePool(n)
  /\ epoch' = [p \in Pools |-> IF ~Exists(p) /\ pool'[p].count > 0 THEN 1 ELSE epoch[p]]
  /\ told'  = [p \in Pools |-> IF ~Exists(p) /\ pool'[p].count > 0 THEN NoAdvice ELSE told[p]]
  /\ UNCHANGED <<paused, held, thresholds, cache, call>>

(* Mutant: the destroyed pool's state stays Paused. *)
HeapDestroyKeepsState(p) ==
  /\ Tick /\ DestroyPool(p)
  /\ epoch'  = [epoch EXCEPT ![p] = 0]
  /\ UNCHANGED <<paused, held, thresholds, cache, told, call>>

HeapDestroy(p) ==
  /\ Tick /\ DestroyPool(p)
  /\ paused' = paused \ {p}
  /\ epoch'  = [epoch EXCEPT ![p] = 0]
  /\ UNCHANGED <<held, thresholds, cache, told, call>>

HeapAlloc(p, o, payload, pinned) ==
  /\ Tick /\ p \notin paused /\ Alloc(p, o, payload, pinned)
  /\ UNCHANGED <<paused, held, epoch, thresholds, cache, told, call>>

HeapFree(o) ==
  /\ Tick /\ o \notin held /\ obj[o].pool \notin paused /\ Free(o)
  /\ UNCHANGED <<paused, held, epoch, thresholds, cache, told, call>>

Quiet(p) == Exists(p) /\ borrow_count(p) = 0

HeapCompact(p, req) ==
  /\ Tick /\ Quiet(p) /\ epoch[p] < EpochBound /\ Compact(p, req)
  /\ paused' = paused \ {p}
  /\ epoch'  = [epoch EXCEPT ![p] = @ + 1]
  /\ UNCHANGED <<held, thresholds, cache, told, call>>

CompactRefused(p) ==
  /\ Tick /\ Exists(p) /\ ~Quiet(p)
  /\ paused' = paused \cup {p}
  /\ UNCHANGED <<vars, held, epoch, thresholds, cache, told, call>>

HeapMerge(s, t) ==
  /\ Tick /\ Quiet(s) /\ Quiet(t) /\ epoch[t] < EpochBound /\ Merge(s, t)
  /\ paused' = paused \ {s, t}
  /\ epoch'  = [epoch EXCEPT ![t] = @ + 1, ![s] = 0]
  /\ UNCHANGED <<held, thresholds, cache, told, call>>

HeapSplit(p, n) ==
  /\ Tick /\ Quiet(p) /\ epoch[p] < EpochBound /\ Split(p, n)
  /\ paused' = paused \ {p}
  /\ epoch'  = [q \in Pools |-> IF q = p THEN epoch[p] + 1
                                ELSE IF ~Exists(q) /\ pool'[q].count > 0 THEN 1 ELSE epoch[q]]
  /\ told'   = [q \in Pools |-> IF ~Exists(q) /\ pool'[q].count > 0 THEN NoAdvice ELSE told[q]]
  /\ UNCHANGED <<held, thresholds, cache, call>>

-----------------------------------------------------------------------------
AdviceInit ==
  /\ Init
  /\ paused = {} /\ held = {}
  /\ epoch = [p \in Pools |-> 0]
  /\ thresholds \in Thresholds
  /\ cache = [p \in Pools |-> NoAdvice]
  /\ told  = [p \in Pools |-> NoAdvice]
  /\ call  = NoAdvice /\ age = 0

AdviceNext ==
  \/ \E t \in Thresholds \ {thresholds} : set_compaction_thresholds(t)
  \/ \E p \in Watched, req \in Queries : Analyze(p, req)
  \/ Answer
  \/ \E o \in Objects : Borrow(o) \/ EndBorrow(o)
  \/ \E p \in Watched : Pause(p) \/ Resume(p)
  \/ \E n \in 1 .. Segments : HeapCreate(n)
  \/ \E p \in Pools : HeapDestroy(p)
  \/ \E p \in Pools, o \in Objects, payload \in Payloads, pinned \in BOOLEAN :
       HeapAlloc(p, o, payload, pinned)
  \/ \E o \in Objects : HeapFree(o)
  \/ \E p \in Pools, req \in Requests : HeapCompact(p, req)
  \/ \E p \in Watched : CompactRefused(p)
  \/ \E s, t \in Pools : HeapMerge(s, t)
  \/ \E p \in Pools, n \in 1 .. Segments : HeapSplit(p, n)

AdviceSpec == AdviceInit /\ [][AdviceNext]_allvars

-----------------------------------------------------------------------------
(* Properties *)

AdviceTypeOK ==
  /\ TypeOK
  /\ paused \subseteq {p \in Pools : Exists(p)}
  /\ held \subseteq {o \in Objects : obj[o].size > 0}
  /\ epoch \in [Pools -> 0 .. EpochBound]
  /\ thresholds \in Thresholds
  /\ cache \in [Pools -> AdviceCache \cup {NoAdvice}]
  /\ told \in [Pools -> CompactionAdvice \cup {NoAdvice}]
  /\ call \in Analysis \cup {NoAdvice}
  /\ age \in 0 .. AgeBound

(* COMPACTION_POLICY.md calls the move estimate exact: the simulation in   *)
(* the analysis counts the objects and bytes that a full compact would     *)
(* move, around pinned blocks and over slack.                              *)
EstimateExact ==
  \A p \in Pools : Exists(p) =>
    LET plan == PlanOf(p, NoRequest) IN
    Estimate(p).moves = plan.moves /\ Estimate(p).bytes = plan.bytes

(* What an owner may rely on when it acts on the verdict at once.  The     *)
(* counter audit never calls a pool damaged that legal calls produced, so  *)
(* free - fragment - largest cannot underflow.  NO_ACTION for a request    *)
(* means that alloc finds a block; COMPACT_RECOMMENDED for a pool without  *)
(* pinned objects that a compaction makes the request fit or, without a    *)
(* request and with a threshold above zero, that it makes the largest free *)
(* block grow (thresholds of {0, 0} are accepted and recommend compaction  *)
(* to any pool); COMPACT_UNLIKELY_TO_HELP for a pool without slack that no *)
(* compaction makes the request fit.                                       *)
VerdictHonest ==
  \A p \in Pools : Exists(p) =>
    \A req \in {r \in Queries : ~Malformed(r)} :
      LET a       == Sampled(p, req)
          verdict == Verdict(p, a)
          need    == Max({req + 1, MinBlock})
          after   == LargestOf(FreeRuns(PlanOf(p, NoRequest).to, Lo(pool[p]), Hi(pool[p])))
      IN /\ verdict # "INVALID_METADATA"
         /\ verdict = "NO_ACTION" /\ req # NoAdvice => BinsFind(p, need) # {}
         /\ verdict = "COMPACT_RECOMMENDED" /\ ~a.pinned =>
              IF req # NoAdvice THEN after >= need
              ELSE thresholds # [ratio |-> 0, min |-> 0] => after > a.largest
         /\ verdict = "COMPACT_UNLIKELY_TO_HELP" /\ a.fragment = 0 => after < need

(* Suppression loses nothing: when poll reports an answer as unchanged, no *)
(* field of it but the move estimates differs from what the caller was     *)
(* last told about this pool, whatever happened to the pool in between.    *)
(* The code and its tests compare all these fields; the comment on         *)
(* poll_compaction_advice promises fewer: see ChangedAsDocumented.         *)
SuppressionSound ==
  [][Answer => LET p == call.pool
                   a == Advice(p, call.seen)
               IN ~changed(p, a) /\ told[p] # NoAdvice => Visible(a) = told[p]]_allvars

(* The comment on poll_compaction_advice: *changed is false when verdict,  *)
(* structure_epoch, borrow_count, largest_free_block and fragment_bytes    *)
(* are unchanged (and the request, as COMPACTION_POLICY.md adds).          *)
ChangedAsDocumented ==
  [][Answer => LET p    == call.pool
                   a    == Advice(p, call.seen)
                   same == {"verdict", "epoch", "borrows", "largest", "fragment", "req"}
               IN cache[p] # NoAdvice /\ (\A f \in same : cache[p][f] = Key(p, a)[f])
                    => ~changed(p, a)]_allvars

(* The comment on COMPACT_RECOMMENDED: fragmentation or the expected       *)
(* request would benefit from a compaction.                                *)
RecommendedPays ==
  \A p \in Pools : Exists(p) =>
    LET a == Sampled(p, NoAdvice) IN
    Verdict(p, a) = "COMPACT_RECOMMENDED" /\ ~a.pinned =>
      LargestOf(FreeRuns(PlanOf(p, NoRequest).to, Lo(pool[p]), Hi(pool[p]))) > a.largest

(* The documentation of COMPACT_UNLIKELY_TO_HELP: even a successful        *)
(* compaction could not satisfy the expected request.                      *)
UnlikelyMeansHopeless ==
  \A p \in Pools : Exists(p) =>
    \A req \in {r \in Queries : ~Malformed(r)} :
      Verdict(p, Sampled(p, req)) = "COMPACT_UNLIKELY_TO_HELP" =>
        LargestOf(FreeRuns(PlanOf(p, NoRequest).to, Lo(pool[p]), Hi(pool[p]))) < Wants(req)
=============================================================================
