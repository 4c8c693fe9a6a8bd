---------------------------- MODULE BoxDetection ----------------------------
(***************************************************************************)
(* Vision: box_pose_estimator, and the client the demo detects boxes with. *)
(*                                                                         *)
(* The estimator answers ~/detect, one estimate at a time, in callbacks    *)
(* that wait for the lock _busy and occupy an executor thread meanwhile.   *)
(* The service answers with a summary; the faces are published on          *)
(* ~/markers, which the client counts: it takes the first message that     *)
(* comes after its call.  Anybody may call the estimator (box_pose_check,  *)
(* rate_hz), and a client that gave up does not end its estimate.          *)
(*                                                                         *)
(* Time is the number of arm motions so far: a frame carries the number at *)
(* which it was taken, a transform (TfHelper looks up the latest one) the  *)
(* number at which it is used.  A mask is a stretch of cells of the image  *)
(* in a plane; its height is in half cells, and that of the belt is 0.     *)
(***************************************************************************)
EXTENDS Integers, Sequences, FiniteSets

CONSTANTS
  MaxCalls,    \* bound on the calls of ~/detect and the ticks of rate_hz
  MaxMoves,    \* bound on the arm motions
  Threads,     \* of the estimator's executor
  PairGap,     \* max_pair_dt, in motions
  Candidates,  \* the masks SAM may propose: records of plane and cells
  Border,      \* the cells at the edge of the image
  MinSize, MaxSize,  \* of a face, in cells
  DedupeDistance     \* in half cells

Calls == 1..MaxCalls
Masks == [plane : Nat, cells : SUBSET Int]

ASSUME DetectionAssumption ==
  /\ {MaxCalls, MaxMoves, Threads, PairGap, MinSize, MaxSize, DedupeDistance}
       \subseteq Nat
  /\ Threads > 0
  /\ Candidates \subseteq Masks /\ IsFiniteSet(Candidates)
  /\ \A m \in Candidates : \E first, last \in m.cells : m.cells = first..last
  /\ DedupeDistance < 2 * MinSize  \* dedupe_distance is 3 cm, min_size 5 cm

VARIABLES
  shared,        \* do others call the estimator, and may things be late?
  \* the estimator
  color, depth,  \* _color, _depth: when the latest frames were taken
  stage,         \* of each call: how far it is
  shot,          \* of the estimate under way: its frames,
  masks, faces,  \* the accepted masks, the faces found
  published,     \* every message on ~/markers
  \* BoxDetectionClient in the demo
  count,         \* _count: messages received; _latest is the last of them
  pc, seen, mine,\* detect(): how far, `seen', and the call it waits for
  rested,        \* were the frames from after the last motion when it called?
  answer,        \* the message the last successful detect() returned
  \* the arm
  now

workVars == <<shot, masks, faces>>
clientVars == <<count, pc, seen, mine, rested, answer>>
detectVars == <<shared, color, depth, stage, workVars, published, clientVars, now>>

NoFrame == -1
Inside == {i \in Calls : stage[i] \in {"waiting", "sam", "tf"}}
RefusedKeepsLock ==  \* mutant: an early return does not release _busy
  \E i \in Calls : stage[i] \in {"sam", "tf", "refused"}
Locked == \E i \in Calls : stage[i] \in {"sam", "tf"}
FreeThread == Cardinality(Inside) < Threads

Stage(i, s) == stage' = [stage EXCEPT ![i] = s]

-----------------------------------------------------------------------------
(* Faces (box_geometry, _faces).                                           *)

Lowest(cells)  == CHOOSE c \in cells : \A d \in cells : c <= d
Highest(cells) == CHOOSE c \in cells : \A d \in cells : c >= d

(* top_face finds a rectangle of the right size.                           *)
Fits(cells) == Highest(cells) - Lowest(cells) + 1 \in MinSize..MaxSize

(* Whole masks of raised box tops; the others are only counted.            *)
Accepted(ms) == {m \in ms : /\ m.cells \cap Border = {}
                            /\ Fits(m.cells)
                            /\ m.plane > 0}

Touch(a, b) == \E c \in a.cells, d \in b.cells : c - d \in -1..1
Union(a, b) == [plane |-> a.plane, cells |-> a.cells \cup b.cells]

Mergeable(a, b) ==
  a # b /\ a.plane = b.plane /\ Touch(a, b) /\ Fits(Union(a, b).cells)

OnePass(S) ==  \* mutant: what was merged is not looked at again
  {S} \cup {(S \ {a, b}) \cup {Union(a, b)} :
              a \in S, b \in {x \in S : \E y \in S : Mergeable(x, y)}}

(* _merge_coplanar until nothing merges: which pairs are met first depends *)
(* on the order of SAM's masks, so this is the set of possible outcomes.   *)
MergeCoplanar(S) ==
  LET merge[T \in SUBSET Masks] ==
        LET pairs == {p \in T \X T : Mergeable(p[1], p[2])}
        IN  IF pairs = {} THEN {T}
            ELSE UNION {merge[(T \ {p[1], p[2]}) \cup {Union(p[1], p[2])}] :
                          p \in pairs}
  IN  merge[S]

Inliers(f) == Cardinality(f.cells)
Square(n) == n * n
Mid2(f) == Lowest(f.cells) + Highest(f.cells)
Near(f, g) ==
  Square(Mid2(f) - Mid2(g)) + Square(f.plane - g.plane) < Square(DedupeDistance)

SmallestFirst(f, g) == Inliers(f) <= Inliers(g)  \* mutant: the order reversed
LargestFirst(f, g) == Inliers(f) >= Inliers(g)

Dedupe(S) ==
  LET keep[T \in SUBSET Masks] ==
        IF T = {} THEN {}
        ELSE LET f == CHOOSE x \in T : \A y \in T : LargestFirst(x, y)
             IN  {f} \cup keep[{g \in T \ {f} : ~Near(f, g)}]
  IN  keep[S]

-----------------------------------------------------------------------------
(* The estimator.                                                          *)

OnColor == /\ FreeThread /\ color' = now
           /\ UNCHANGED <<shared, depth, stage, workVars, published,
                          clientVars, now>>
OnDepth == /\ FreeThread /\ depth' = now
           /\ UNCHANGED <<shared, color, stage, workVars, published,
                          clientVars, now>>

(* _on_detect gets a thread, and waits for the lock.                       *)
OnDetect(i) ==
  /\ stage[i] = "sent" /\ FreeThread
  /\ Stage(i, "waiting")
  /\ UNCHANGED <<shared, color, depth, workVars, published,
                 clientVars, now>>

(* _frames: the latest pair, if both were taken at about the same time -   *)
(* which may have been before the last motion of the arm.                  *)
Paired == color # NoFrame /\ depth # NoFrame /\ color - depth \in -PairGap..PairGap

BeginEstimate(i) ==
  /\ stage[i] = "waiting" /\ ~Locked
  /\ IF Paired THEN /\ Stage(i, "sam")
                    /\ shot' = <<color, depth>>
               ELSE Stage(i, "refused") /\ UNCHANGED shot
  /\ UNCHANGED <<shared, color, depth, masks, faces, published, clientVars, now>>

NothingKept == shot' = <<NoFrame, NoFrame>> /\ masks' = {} /\ faces' = {}

(* MobileSAM proposes masks, or runs out of memory (or the image sizes     *)
(* differ).                                                                *)
Segment(i) ==
  /\ stage[i] = "sam"
  /\ \/ /\ Stage(i, "refused") /\ NothingKept
     \/ /\ Stage(i, "tf") /\ UNCHANGED shot
        /\ \E ms \in SUBSET Candidates :
             /\ masks' = Accepted(ms)
             /\ \E merged \in MergeCoplanar(Accepted(ms)) : faces' = Dedupe(merged)
  /\ UNCHANGED <<shared, color, depth, published, clientVars, now>>

(* Without a transform the estimate fails, otherwise the faces are         *)
(* published and then the call is answered.                                *)
NoTransform(i) ==
  /\ stage[i] = "tf" /\ faces # {}
  /\ Stage(i, "refused")
  /\ NothingKept
  /\ UNCHANGED <<shared, color, depth, published, clientVars, now>>

Publish(i) ==
  /\ stage[i] = "tf"
  /\ Stage(i, "done")
  /\ published' = Append(published, [by |-> i, true |-> shot = <<now, now>>])
  /\ NothingKept
  /\ UNCHANGED <<shared, color, depth, clientVars, now>>

-----------------------------------------------------------------------------
(* The callers.                                                            *)

NewCall(i, s) ==
  /\ stage[i] = "none" /\ \A j \in 1..(i - 1) : stage[j] # "none"
  /\ Stage(i, s)

(* box_pose_check calls on a timer, whatever became of its last call; the  *)
(* timer of rate_hz skips a tick while an estimate is under way.           *)
CheckTriggers(i) ==
  /\ shared /\ NewCall(i, "sent")
  /\ UNCHANGED <<shared, color, depth, workVars, published, clientVars, now>>

OnTimer(i) ==
  /\ shared /\ ~Locked /\ FreeThread /\ NewCall(i, "waiting")
  /\ UNCHANGED <<shared, color, depth, workVars, published, clientVars, now>>

Detect(i) ==
  /\ pc = "idle" /\ NewCall(i, "sent")
  /\ pc' = "called" /\ seen' = count /\ mine' = i
  /\ rested' = (color = now /\ depth = now)
  /\ UNCHANGED <<shared, color, depth, workVars, published, count, answer,
                 now>>

OnMarkers ==
  /\ count < Len(published)
  /\ count' = count + 1
  /\ UNCHANGED <<shared, color, depth, stage, workVars, published, pc, seen,
                 mine, rested, answer, now>>

(* The answer arrives - perhaps before the markers - or the call, or the   *)
(* wait of 2 s for the markers, times out.                                 *)
Answered ==
  /\ pc = "called"
  /\ \/ stage[mine] = "done" /\ pc' = "markers"
     \/ stage[mine] = "refused" /\ pc' = "idle"
     \/ shared /\ pc' = "idle"
  /\ UNCHANGED <<shared, color, depth, stage, workVars, published, count,
                 seen, mine, rested, answer, now>>

AnyMarkers ==  \* mutant: the messages are not counted
  /\ pc = "markers" /\ count > 0
  /\ pc' = "idle" /\ answer' = count
  /\ UNCHANGED <<shared, color, depth, stage, workVars, published, count,
                 seen, mine, rested, now>>

TakeMarkers ==
  /\ pc = "markers" /\ count > seen
  /\ pc' = "idle" /\ answer' = count
  /\ UNCHANGED <<shared, color, depth, stage, workVars, published, count,
                 seen, mine, rested, now>>

NoMarkers ==
  /\ pc = "markers" /\ count <= seen /\ shared
  /\ pc' = "idle"
  /\ UNCHANGED <<shared, color, depth, stage, workVars, published, count,
                 seen, mine, rested, answer, now>>

(* The demo moves the arm only between two calls of detect().              *)
ArmMoves ==
  /\ pc = "idle" /\ now < MaxMoves
  /\ now' = now + 1
  /\ UNCHANGED <<shared, color, depth, stage, workVars, published, clientVars>>

-----------------------------------------------------------------------------
DetectInit ==
  /\ shared \in BOOLEAN
  /\ color = NoFrame /\ depth = NoFrame
  /\ stage = [i \in Calls |-> "none"]
  /\ shot = <<NoFrame, NoFrame>>
  /\ masks = {} /\ faces = {}
  /\ published = <<>> /\ count = 0
  /\ pc = "idle" /\ seen = 0 /\ mine = 1 /\ answer = 0
  /\ rested = FALSE
  /\ now = 0

Estimate(i) == BeginEstimate(i) \/ Segment(i) \/ NoTransform(i) \/ Publish(i)

DetectNext ==
  \/ OnColor \/ OnDepth
  \/ \E i \in Calls : \/ OnDetect(i) \/ Estimate(i)
                      \/ CheckTriggers(i) \/ OnTimer(i) \/ Detect(i)
  \/ OnMarkers \/ Answered \/ TakeMarkers \/ NoMarkers
  \/ ArmMoves

(* The threads run and the camera delivers.  Which of the callbacks that    *)
(* wait for the lock gets it is left open.                                 *)
Fairness ==
  /\ WF_detectVars(OnColor) /\ WF_detectVars(OnDepth)
  /\ WF_detectVars(\E i \in Calls : OnDetect(i))
  /\ WF_detectVars(\E i \in Calls : Estimate(i))
  /\ WF_detectVars(OnMarkers) /\ WF_detectVars(Answered)
  /\ WF_detectVars(TakeMarkers \/ NoMarkers)

DetectSpec == DetectInit /\ [][DetectNext]_detectVars
DetectFairSpec == DetectSpec /\ Fairness

-----------------------------------------------------------------------------
(* A client that is alone and not timed out gets the faces of its own      *)
(* call; and it gets them where they are - from frames that the camera     *)
(* took where the arm is when the transform is looked up - if the camera   *)
(* had delivered both frames since the last motion when it called.  A      *)
(* client that calls earlier may be handed displaced faces, alone or not;  *)
(* with other callers it may be handed theirs, from before its call.       *)
OwnAndTrueWhenAlone ==
  ~shared /\ answer > 0 /\ pc = "idle" /\ stage[mine] = "done"
    => /\ published[answer].by = mine
       /\ rested => published[answer].true

(* detect() "waits for the next one": no estimate is returned twice, and   *)
(* none that was already there when detect() was called, whoever else      *)
(* calls the estimator and whatever comes late.                            *)
NeverTwice ==
  [][answer' # answer => answer' > answer /\ answer' > seen]_detectVars

(* Of the faces of an estimate no two are the same box twice - near each   *)
(* other, or parts of one face that SAM split - and every accepted mask is *)
(* part of a face or beside a face at least as large.                      *)
FacesRight ==
  /\ \A f, g \in faces : f # g => ~Near(f, g) /\ ~Mergeable(f, g)
  /\ \A m \in masks : \E f \in faces :
       m.cells \cap f.cells # {} /\ Inliers(f) >= Inliers(m)

(* Every call is answered: each way out of an estimate releases the lock.  *)
CallsAnswered ==
  \A i \in Calls : stage[i] = "waiting" ~> stage[i] \in {"refused", "done"}
=============================================================================
