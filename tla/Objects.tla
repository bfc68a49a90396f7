------------------------------ MODULE Objects ------------------------------
(***************************************************************************)
(* The objects of one client's world: the id table (ObjectFactory.cpp),    *)
(* the list of objects to be processed (ObjectProcessor.cpp), one tick of  *)
(* the world (CoreImplementation.cpp), and the save a joiner loads         *)
(* (WorldLoaderSaver.cpp).                                                 *)
(*                                                                         *)
(* A world is run by one thread, but the thread calls out: to the Process  *)
(* of every due object, to the atmosphere, to the handlers of messages and *)
(* to the physics.  What such a callback does to this state is a number of *)
(* calls of CreateImpl, Delete and SetFreq, which the model lets it make   *)
(* in any order; the walk over the list goes on with whatever they left.   *)
(*                                                                         *)
(* The list of the code has the positions 0..size-1, here 1..Len.          *)
(***************************************************************************)
EXTENDS Integers, Sequences, SequencesExt

CONSTANTS
  MaxId,        \* bound: ids of objects are 1..MaxId
  Freq,         \* values of how_often_ an object is given
  TickPeriod    \* ticks are counted modulo this; only game_tick % how_often_ is read

ASSUME ObjectsAssumption ==
  /\ MaxId \in Nat \ {0}
  /\ Freq \subseteq Nat
  /\ 0 \in Freq
  /\ TickPeriod \in Nat \ {0}
  /\ \A f \in Freq \ {0} : TickPeriod % f = 0

Id == 1..MaxId

VARIABLES
  live,      \* ids whose entry in objects_table_ is not null
  freq,      \* freq[o]: how_often_ of object o
  id,        \* the id the next object gets
  doomed,    \* ids_to_delete_, the null pointers in it left out
  objects,   \* objects_ of the processor
  lookup,    \* objects_lookup_ of the processor
  hearers,   \* hearers of the GlobalObjectsHolder, which are in the order of their ids
  tick,      \* game_tick, modulo TickPeriod
  stage,     \* where the world's thread stands
  i,         \* loop variable of RunProcess or FinishWorldCreation
  end        \* where that loop ends

(* History, read by properties only.                                       *)
VARIABLES
  freed,     \* ids of objects whose memory has been given back
  hearing,   \* ids of objects that hear
  ran,       \* objects processed in this tick
  due,       \* listed objects whose turn it was when the tick began, but
             \* for those that have been deleted or given a frequency since
  cut        \* RunProcess returned early in this tick

table == <<live, freq, id, doomed>>
processor == <<objects, lookup>>
loop == <<i, end>>
history == <<freed, hearing, ran, due, cut>>
vars == <<table, processor, hearers, tick, stage, loop, history>>

TypeOK ==
  /\ live \subseteq Id
  /\ freq \in [Id -> Freq]
  /\ id \in 1..(MaxId + 1)
  /\ doomed \in Seq(Id)
  /\ objects \in Seq(Id)
  /\ lookup \subseteq Id
  /\ hearers \subseteq Id
  /\ tick \in 0..(TickPeriod - 1)
  /\ stage \in {"generate", "finish", "idle", "walk", "process", "calls"}
  /\ i \in 1..(MaxId + 1)
  /\ end \in 0..MaxId
  /\ freed \subseteq Id
  /\ hearing \subseteq Id
  /\ ran \subseteq Id
  /\ due \subseteq Id
  /\ cut \in BOOLEAN

Init ==
  /\ live = {}
  /\ freq = [o \in Id |-> 0]
  /\ id = 1
  /\ doomed = <<>>
  /\ objects = <<>>
  /\ lookup = {}
  /\ hearers = {}
  /\ tick = 0
  /\ stage = "generate"
  /\ i = 1
  /\ end = 0
  /\ freed = {}
  /\ hearing = {}
  /\ ran = {}
  /\ due = {}
  /\ cut = FALSE

\* The variables of the loop go out of scope.
LeaveLoop(next) ==
  /\ stage' = next
  /\ i' = 1
  /\ end' = 0

-----------------------------------------------------------------------------
(* What a callback may do to this state.                                   *)

\* Code of objects runs: in Process, in AfterWorldCreation, and in the rest of
\* the tick, which is the atmosphere, the messages and the physics.
InCallback == stage \in {"process", "finish", "calls"}

\* Mutant: an object is appended whether or not it is listed.
AddAlways(o) ==
  /\ objects' = Append(objects, o)
  /\ lookup' = lookup \cup {o}

Add(o) ==
  IF o \in lookup
  THEN UNCHANGED processor
  ELSE /\ objects' = Append(objects, o)
       /\ lookup' = lookup \cup {o}

SetFreq(o, f) ==
  /\ freq' = [freq EXCEPT ![o] = f]
  /\ IF f # 0 THEN Add(o) ELSE UNCHANGED processor

ObjectSetsFreq(o, f) ==
  /\ InCallback
  /\ o \in live
  /\ SetFreq(o, f)
  /\ due' = due \ {o}
  /\ UNCHANGED <<live, id, doomed, hearers, tick, stage, loop, freed, hearing, ran, cut>>

\* A new object of a class that hears or not.  Its AfterWorldCreation gives it
\* the frequency f; that is left to FinishWorldCreation while generating.
Create(f, hears) ==
  /\ id <= MaxId
  /\ live' = live \cup {id}
  /\ id' = id + 1
  /\ SetFreq(id, f)
  /\ hearers' = IF hears THEN hearers \cup {id} ELSE hearers
  /\ hearing' = IF hears THEN hearing \cup {id} ELSE hearing

CreateImpl(f, hears) ==
  /\ InCallback \/ (stage = "generate" /\ f = 0)
  /\ Create(f, hears)
  /\ UNCHANGED <<doomed, tick, stage, loop, freed, ran, due, cut>>

\* An object that was deleted in this tick may be deleted once more: its entry
\* is null then, and deleting a null pointer does nothing.  No AfterWorldCreation
\* deletes.
DeleteLater(o) ==
  /\ doomed' = IF o \in live THEN Append(doomed, o) ELSE doomed
  /\ live' = live \ {o}
  /\ UNCHANGED freed

ObjectDeletes(o) ==
  /\ stage \in {"process", "calls"}
  /\ o \in live \cup ToSet(doomed)
  /\ DeleteLater(o)
  /\ due' = due \ {o}
  /\ UNCHANGED <<freq, id, processor, hearers, tick, stage, loop, hearing, ran, cut>>

-----------------------------------------------------------------------------
(* A new world.                                                            *)

\* LoadFromJsonMapGen has placed its objects.  The table the loop visits has
\* free entries at its end, so objects created from here on may be visited too.
FinishWorldCreation ==
  /\ stage = "generate"
  /\ stage' = "finish"
  /\ i' = 1
  /\ end' \in (id - 1)..MaxId
  /\ UNCHANGED <<table, processor, hearers, tick, history>>

\* AfterWorldCreation of one entry; what more it does are calls as above.
FinishObject ==
  /\ stage = "finish"
  /\ i <= end
  /\ IF i \in live
     THEN \E f \in Freq : SetFreq(i, f)
     ELSE UNCHANGED <<freq, processor>>
  /\ i' = i + 1
  /\ UNCHANGED <<live, id, doomed, hearers, tick, stage, end, history>>

WorldCreated ==
  /\ stage = "finish"
  /\ i > end
  /\ LeaveLoop("idle")
  /\ UNCHANGED <<table, processor, hearers, tick, history>>

-----------------------------------------------------------------------------
(* A tick.                                                                 *)

IsDue(o, t) == o \in live /\ freq[o] # 0 /\ t % freq[o] = 0

StartTick ==
  /\ stage = "idle"
  /\ tick' = (tick + 1) % TickPeriod
  /\ stage' = "walk"
  /\ i' = 1
  /\ end' = Len(objects)
  /\ due' = {o \in ToSet(objects) : IsDue(o, tick')}
  /\ UNCHANGED <<table, processor, hearers, freed, hearing, ran, cut>>

\* An entry that is to leave the list: its object is gone or asks for no turns.
IsStale(o) == o \notin live \/ freq[o] = 0

Walking == stage = "walk" /\ i <= end

\* Mutant: the last entry is dropped instead of being moved.
UnlistLast ==
  /\ lookup' = lookup \ {objects[i]}
  /\ objects' = Front(objects)

\* The last entry takes the place of the removed one.
Unlist ==
  /\ lookup' = lookup \ {objects[i]}
  /\ objects' = [j \in 1..(Len(objects) - 1) |-> IF j = i THEN Last(objects) ELSE objects[j]]

\* Mutant: the walk goes on behind the place that was filled.
RemoveStaleGoesOn ==
  /\ Walking
  /\ IsStale(objects[i])
  /\ Unlist
  /\ i' = i + 1
  /\ end' = end - 1
  /\ UNCHANGED <<table, hearers, tick, stage, history>>

\* Removing an entry ends the walk, also for the entries behind it.
RemoveStale ==
  /\ Walking
  /\ IsStale(objects[i])
  /\ Unlist
  /\ LeaveLoop("calls")
  /\ cut' = TRUE
  /\ UNCHANGED <<table, hearers, tick, freed, hearing, ran, due>>

SkipObject ==
  /\ Walking
  /\ ~IsStale(objects[i])
  /\ tick % freq[objects[i]] # 0
  /\ i' = i + 1
  /\ UNCHANGED <<table, processor, hearers, tick, stage, end, history>>

ProcessObject ==
  /\ Walking
  /\ ~IsStale(objects[i])
  /\ tick % freq[objects[i]] = 0
  /\ stage' = "process"
  /\ ran' = ran \cup {objects[i]}
  /\ UNCHANGED <<table, processor, hearers, tick, loop, freed, hearing, due, cut>>

ProcessReturns ==
  /\ stage = "process"
  /\ stage' = "walk"
  /\ i' = i + 1
  /\ UNCHANGED <<table, processor, hearers, tick, end, history>>

WalkEnds ==
  /\ stage = "walk"
  /\ i > end
  /\ LeaveLoop("calls")
  /\ UNCHANGED <<table, processor, hearers, tick, history>>

\* Mutant: hearers that are gone stay.
ProcessNoHearers == UNCHANGED hearers

ProcessHearers == hearers' = hearers \cap live

ProcessDeletion ==
  /\ freed' = freed \cup ToSet(doomed)
  /\ doomed' = <<>>

FinishTick ==
  /\ stage = "calls"
  /\ stage' = "idle"
  /\ ProcessHearers
  /\ ProcessDeletion
  /\ ran' = {}
  /\ due' = {}
  /\ cut' = FALSE
  /\ UNCHANGED <<live, freq, id, processor, tick, loop, hearing>>

Callback ==
  \/ \E o \in Id, f \in Freq : ObjectSetsFreq(o, f)
  \/ \E f \in Freq, hears \in BOOLEAN : CreateImpl(f, hears)
  \/ \E o \in Id : ObjectDeletes(o)

Next ==
  \/ Callback
  \/ FinishWorldCreation
  \/ FinishObject
  \/ WorldCreated
  \/ StartTick
  \/ RemoveStale
  \/ SkipObject
  \/ ProcessObject
  \/ ProcessReturns
  \/ WalkEnds
  \/ FinishTick

Spec == Init /\ [][Next]_vars

-----------------------------------------------------------------------------
(* Saving and loading.  Game saves between two ticks, at a MAP_UPLOAD.     *)

\* What Save writes: the header with the next id and the saved members of the
\* globals and of the processor, then the live objects in the order of their ids.
Saved == [id |-> id, tick |-> tick, objects |-> objects, hearers |-> hearers,
          freq |-> [o \in live |-> freq[o]]]

World == [live |-> live, freq |-> [o \in live |-> freq[o]], id |-> id, doomed |-> doomed,
          objects |-> objects, lookup |-> lookup, hearers |-> hearers, tick |-> tick]

\* Mutant: the lookup is not rebuilt, so every object lists itself.
UnlistedAll(s) == {o \in DOMAIN s.freq : s.freq[o] # 0}

\* The objects that their own Load puts on the list, because the list that was
\* saved does not have them.  The processor has been loaded before them.
Unlisted(s) == {o \in DOMAIN s.freq : s.freq[o] # 0 /\ o \notin ToSet(s.objects)}

\* CreateVoid keeps the next id above the ids it loads.
LoadedId(s) ==
  IF \E o \in DOMAIN s.freq : o >= s.id THEN Max(DOMAIN s.freq) + 1 ELSE s.id

\* The world of a joiner that has loaded s.
Loaded(s) ==
  LET added == IF Unlisted(s) = {} THEN <<>> ELSE SetToSortSeq(Unlisted(s), <)
  IN [live    |-> DOMAIN s.freq,
      freq    |-> s.freq,
      id      |-> LoadedId(s),
      doomed  |-> <<>>,
      objects |-> s.objects \o added,
      lookup  |-> ToSet(s.objects) \cup Unlisted(s),
      hearers |-> s.hearers,
      tick    |-> s.tick]

-----------------------------------------------------------------------------
(* Properties.                                                             *)

\* The lookup answers for the list, which has nothing twice: Add and RunProcess
\* change both, whatever the objects do in between.
ListMatchesLookup ==
  /\ lookup = ToSet(objects)
  /\ \A j, k \in 1..Len(objects) : objects[j] = objects[k] => j = k

\* A live object that asks for turns is on the list, so that no removal of
\* another entry and no return of an object to the list loses it.
DueListed == \A o \in live : freq[o] # 0 => o \in ToSet(objects)

\* The list, the lookup, the table and the walk stay consistent with each other,
\* whatever is created, deleted and re-timed while RunProcess walks the list.
ListSound == TypeOK /\ ListMatchesLookup /\ DueListed

\* The id of an object that was deleted never becomes another object's, so an
\* IdPtr to it stays invalid for good.
IdsNeverReused ==
  [][\A o \in Id : o < id /\ o \notin live => o \notin live']_vars

\* RunProcess gives no object two turns in a tick, although entries move.
OncePerTick == [][ProcessObject => objects[i] \notin ran]_vars

\* An object whose turn it is at the start of a tick gets it, unless RunProcess
\* returned early at a stale entry.
WalkIsComplete == stage = "calls" /\ ~cut => due \subseteq ran

\* Every object that was created is live, waits for ProcessDeletion once, or
\* has been freed: no object is freed twice or lost.
FreedOnce ==
  /\ \A j, k \in 1..Len(doomed) : doomed[j] = doomed[k] => j = k
  /\ ToSet(doomed) \cap live = {}
  /\ freed \cap (live \cup ToSet(doomed)) = {}
  /\ 1..(id - 1) = live \cup ToSet(doomed) \cup freed

\* An object may delete itself and go on running: it is not freed before its
\* Process has returned.
NothingFreedInUse == stage = "process" => objects[i] \notin freed

\* Between two ticks the hearers are the live objects that hear, so that
\* ProcessHearers asks no freed object what it hears.
HearersLive == stage = "idle" => hearers = hearing \cap live

\* No object is freed twice, lost, freed while it runs or asked by ProcessHearers
\* after it was freed.
MemorySound == FreedOnce /\ NothingFreedInUse /\ HearersLive

\* A joiner that loads a save has the world that was saved, with the same order
\* of processing and the same next id; from here on both worlds take the same
\* steps.
SaveLosesNothing == stage = "idle" => Loaded(Saved) = World
=============================================================================
