-------------------------- MODULE OPAtomClipReader --------------------------
(***************************************************************************)
(* OPAtomClipReader (examples/OPAtomReader): a clip of tracks, each in a   *)
(* file of its own with a reader of its own, that are read and sought      *)
(* together.  The calls on the tracks are made one after the other; when   *)
(* one fails, it and those before it are put back.                         *)
(***************************************************************************)
EXTENDS EssenceParsers, FiniteSets

CONSTANTS
  Clips,      \* the clips that may be opened: sequences of essences
  MaxTarget,  \* bound: the positions that are sought
  Faults      \* bound: where in the essence a read error may be

ASSUME ClipAssumption == MaxTarget \in Nat /\ Faults \subseteq Nat

\* A clip has tracks, whose files are as their parsers take them to be.
ASSUME EssenceAssumption ==
  \A clip \in Clips :
    /\ clip \in Seq(Range(clip)) /\ clip # <<>>
    /\ \A i \in DOMAIN clip : WellFormed(clip[i])

VARIABLES
  tracks,           \* mTrackReaders
  mPosition,
  mDuration,
  mContentPackage,  \* an element per track
  faulted,          \* a call has met a read error
  call              \* the last call: what it was, its argument and its outcome

vars == <<tracks, mPosition, mDuration, mContentPackage, faulted, call>>

Called(op, arg, ok, error) == [op |-> op, arg |-> arg, ok |-> ok, error |-> error]
Element(offset, data) == [essenceOffset |-> offset, data |-> data]

-----------------------------------------------------------------------------
(* Durations *)

\* The shortest of the tracks, and -1 while one is not known.
MinDuration(trackList) == Min({TrackDuration(trackList[i]) : i \in DOMAIN trackList})

\* The constructor of an OPAtomClipReader for tracks that were opened.
Init ==
  \E clip \in Clips :
    /\ tracks = [i \in DOMAIN clip |-> Open(clip[i])]
    /\ mPosition = 0
    /\ mDuration = MinDuration([i \in DOMAIN clip |-> Open(clip[i])])
    /\ mContentPackage = [i \in DOMAIN clip |-> Element(0, <<>>)]
    /\ faulted = FALSE
    /\ call = Called("open", 0, TRUE, FALSE)

\* Where the files end for a call: one of them may have a read error.
FileEnds == [i \in DOMAIN tracks |-> End(tracks[i].essence)]
Limits ==
  {FileEnds} \cup
  {[FileEnds EXCEPT ![i] = Min({@, tracks[i].essence.start + n})] :
     i \in DOMAIN tracks, n \in Faults}
Meets(limits) == faulted' = (faulted \/ limits # FileEnds)

\* GetDuration: a duration that is known is kept.
GetDuration ==
  /\ mDuration' = IF mDuration >= 0 THEN mDuration ELSE MinDuration(tracks)
  /\ call' = Called("duration", 0, TRUE, FALSE)
  /\ UNCHANGED <<tracks, mPosition, mContentPackage, faulted>>

DetermineDuration(limits) ==
  /\ tracks' = [i \in DOMAIN tracks |-> TrackDetermine(tracks[i], limits[i])]
  /\ mDuration' = MinDuration(tracks')
  /\ call' = Called("determine", 0, TRUE, limits # FileEnds)
  /\ Meets(limits)
  /\ UNCHANGED <<mPosition, mContentPackage>>

-----------------------------------------------------------------------------
(* Reading and seeking *)

\* Fault: the track that failed is not put back with those before it.
PutBack_Others(first) == 1 .. first - 1

\* The tracks that are put back when `first` is the first that failed.
PutBack(first) == 1 .. first

\* The tracks after a call that gave these results.
TracksAfter(results, limits) ==
  LET failed == {i \in DOMAIN tracks : ~results[i].ok}
  IN [i \in DOMAIN tracks |->
        IF failed = {} THEN results[i].track
        ELSE IF i \in PutBack(Min(failed))
        THEN TrackSeek(results[i].track, mPosition, limits[i]).track
        ELSE IF i <= Min(failed) THEN results[i].track
        ELSE tracks[i]]

\* The content package is filled track by track, too.  The element of a track
\* has the essence offset from before the read.
PackageAfter(results) ==
  LET failed == {i \in DOMAIN tracks : ~results[i].ok}
      made == IF failed = {} THEN DOMAIN tracks ELSE 1 .. Min(failed)
  IN [i \in DOMAIN tracks |->
        IF i \notin made \/ results[i].data = NoData THEN mContentPackage[i]
        ELSE IF results[i].ok THEN Element(tracks[i].essenceOffset, results[i].data)
        ELSE [mContentPackage[i] EXCEPT !.data = <<>>]]

Read(limits) ==
  LET results == [i \in DOMAIN tracks |-> TrackRead(tracks[i], limits[i])]
      ok == \A i \in DOMAIN tracks : results[i].ok
  IN /\ tracks' = TracksAfter(results, limits)
     /\ mContentPackage' = PackageAfter(results)
     /\ mPosition' = IF ok THEN mPosition + 1 ELSE mPosition
     /\ call' = Called("read", 0, ok, limits # FileEnds)
     /\ Meets(limits)
     /\ UNCHANGED mDuration

Seek(position, limits) ==
  LET results == [i \in DOMAIN tracks |-> TrackSeek(tracks[i], position, limits[i])]
      ok == \A i \in DOMAIN tracks : results[i].ok
  IN /\ tracks' = TracksAfter(results, limits)
     /\ mPosition' = IF ok THEN position ELSE mPosition
     /\ call' = Called("seek", position, ok, limits # FileEnds)
     /\ Meets(limits)
     /\ UNCHANGED <<mDuration, mContentPackage>>

ClipIsEOF == \E i \in DOMAIN tracks : IsEOF(tracks[i])

Next ==
  \/ GetDuration
  \/ \E limits \in Limits :
       \/ DetermineDuration(limits)
       \/ Read(limits)
       \/ \E position \in 0 .. MaxTarget : Seek(position, limits)

Spec == Init /\ [][Next]_vars

-----------------------------------------------------------------------------
(* Properties *)

\* The essences there are, the number of whole frames in each, and the content
\* elements of these.
Essences == UNION {Range(clip) : clip \in Clips}

FramesIn ==
  [e \in Essences |->
    IF e.kind = "sized"
    THEN Max({n \in 0 .. EssenceLength(e) : OffsetOf(e, n) <= EssenceLength(e)})
    ELSE Max({n \in 0 .. Len(e.sizes) : OffsetOf(e, n) <= e.units})]

Elements ==
  [e \in Essences |->
    [p \in 0 .. FramesIn[e] - 1 |-> Element(OffsetOf(e, p), Frame(e, p))]]

\* The number of frames that a track can still give.
LengthOf(t) == IF t.duration >= 0 THEN t.duration ELSE FramesIn[t.essence]
Length == Min({LengthOf(tracks[i]) : i \in DOMAIN tracks})

\* The variables have their types.
TypeOK ==
  /\ \A i \in DOMAIN tracks :
       LET t == tracks[i]
       IN /\ t.filePos \in Nat /\ t.essenceOffset \in Nat
          /\ t.position \in Nat /\ t.duration \in Nat \cup {-1}
          /\ t.offsets \in Seq(Nat) /\ t.offsets # <<>> /\ t.complete \in BOOLEAN
          /\ t.bufferFrom \in Nat /\ t.buffered \in 0 .. Chunk
  /\ mPosition \in Nat
  /\ mDuration \in Nat \cup {-1}
  /\ DOMAIN mContentPackage = DOMAIN tracks

\* The tracks are in step: after every call, failed or not, each is where the
\* clip is, although a failing seek moves a track to the end of its index.
TracksInStep == \A i \in DOMAIN tracks : tracks[i].position = mPosition

\* A track that is not at its end has its file, less what is in the parser's
\* buffer, at the frame it is to read next: neither a seek back over a short
\* read nor a failed extension of the index leaves it elsewhere.
FilesAtPosition ==
  \A i \in DOMAIN tracks :
    LET t == tracks[i]
    IN ~IsEOF(t) => /\ ParsePos(t) = t.essence.start + OffsetOf(t.essence, t.position)
                    /\ t.essenceOffset = OffsetOf(t.essence, t.position)
                    /\ t.buffered > 0 => t.bufferFrom + t.buffered = t.filePos

\* The index of a track has the true offset of each frame, in whatever order
\* reads, seeks and DetermineDuration extended it.
IndexIsTrue ==
  \A i \in DOMAIN tracks : tracks[i].essence.kind = "variable" =>
    \A p \in 0 .. LastIndexed(tracks[i]) :
      GetFrameOffset(tracks[i], p) = OffsetOf(tracks[i].essence, p)

\* As many frames as the clip says are whole in every file, though it was asked
\* before the tracks knew their durations; a read error cannot make it longer.
DurationIsReadable ==
  mDuration >= 0 => \A i \in DOMAIN tracks : mDuration <= FramesIn[tracks[i].essence]

\* The index tables in the files have all frames.
WholeIndexes ==
  \A e \in Essences :
    e.kind = "variable" /\ e.index # <<>> => OpenVariable(e).duration = FramesIn[e]

\* DetermineDuration finds all frames of the shortest track, or as many as its
\* metadata says, whatever was read and sought before.
DeterminedDuration ==
  (call.op = "determine" /\ ~faulted) =>
    mDuration = Min({LET e == tracks[i].essence
                     IN IF e.durationInMetadata > 0
                        THEN Min({e.durationInMetadata, FramesIn[e]}) ELSE FramesIn[e]
                       : i \in DOMAIN tracks})

\* A read that fails and meets no read error is at the end of the clip, even if
\* an earlier read error made that end: IsEOF tells the end from a failure.
FailedReadIsEOF == (call.op = "read" /\ ~call.ok /\ ~call.error) => ClipIsEOF

\* The edit unit that the content package holds: every track's frame at one
\* position.
EditUnit ==
  LET units == {p \in DOMAIN Elements[tracks[1].essence] :
                  \A i \in DOMAIN tracks :
                    /\ p \in DOMAIN Elements[tracks[i].essence]
                    /\ mContentPackage[i] = Elements[tracks[i].essence][p]}
  IN IF units = {} THEN -1 ELSE Max(units)

\* The clip reader implements a clip: edit units are read in order and whole,
\* each call succeeds where it must, and a call that fails moves nothing.
ClipPromise ==
  INSTANCE Clip WITH Targets <- 0 .. MaxTarget,
    length <- Length, position <- mPosition, package <- EditUnit
ImplementsClip == ClipPromise!Spec
=============================================================================
