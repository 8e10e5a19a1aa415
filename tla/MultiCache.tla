----------------------------- MODULE MultiCache -----------------------------
(***************************************************************************)
(* src/base/multicache.c: a cache of bounded size for reference counted    *)
(* objects of several types.                                               *)
(*                                                                         *)
(* An entry is in two places: in the idmap of its type, where it is found, *)
(* and in the list of the cache, which is in order of use and from whose   *)
(* head GWEN_MultiCache_AddEntry drops entries to make room.  AddEntry     *)
(* runs step by step, one iteration of its loop at a time.                 *)
(*                                                                         *)
(* The hit, miss and drop counters, which only the log shows, are left     *)
(* out; the five parameters of an entry are one value.                     *)
(***************************************************************************)
EXTENDS Integers, Sequences, FiniteSets, Functions

CONSTANTS Type,      \* the GWEN_MULTICACHE_TYPE objects
          Id,        \* ids of cached objects
          Data,      \* the objects themselves
          SizeOf,    \* their sizes, as callers state them
          Param,     \* parameters; NoParam where a caller passes none
          NoParam,
          MaxSize,   \* mc->maxSize
          WordMod,   \* sizes are unsigned: they are counted modulo this
          MaxHeld,   \* bound on the references a caller has to an object
          GoOn,      \* do callers go on after GWEN_ERROR_MEMORY_FULL?
          None       \* no entry

Entry == [type : Type, id : Id, data : Data, param : Param]

\* WordMod stands for 2^64: it is even, sizes are below one half of it, and a
\* sum of two of them does not wrap.
ASSUME CacheAssumption ==
  /\ SizeOf \in [Data -> Nat]
  /\ NoParam \in Param /\ GoOn \in BOOLEAN /\ None \notin Entry
  /\ MaxSize \in Nat /\ MaxHeld \in Nat \ {0}
  /\ WordMod \in Nat \ {0} /\ WordMod % 2 = 0
  /\ \A d \in Data : /\ MaxSize + SizeOf[d] < WordMod
                     /\ 2 * SizeOf[d] < WordMod

VARIABLES types,       \* the types in use
          idMap,       \* per type and id: the entry in ct->entryMap, or None
          entryList,   \* mc->entryList, least recently used entry first
          currentSize, \* mc->currentSize
          maxSizeUsed, \* mc->maxSizeUsed
          adding,      \* the entry AddEntry is working on, or None
          nsize,       \* its local nsize: the bytes still to be freed
          refs,        \* reference counters of the objects
          held,        \* the references callers have
          recent,      \* the entry used last, None once it is released
          overfull     \* has AddEntry returned GWEN_ERROR_MEMORY_FULL?

cache == <<types, idMap, entryList, currentSize, maxSizeUsed>>
adder == <<adding, nsize>>
ghost == <<recent, overfull>>
vars == <<cache, adder, refs, held, ghost>>

Size(e) == SizeOf[e.data]

TypeOK ==
  /\ types \subseteq Type
  /\ idMap \in [Type -> [Id -> Entry \cup {None}]]
  /\ entryList \in Seq(Entry)
  /\ currentSize \in 0..(WordMod - 1)
  /\ maxSizeUsed \in 0..(WordMod - 1)
  /\ adding \in Entry \cup {None}
  /\ nsize \in (-WordMod)..WordMod
  /\ refs \in [Data -> Nat]
  /\ held \in [Data -> 0..MaxHeld]
  /\ recent \in Entry \cup {None}
  /\ overfull \in BOOLEAN

Init ==
  /\ types = {}
  /\ idMap = [t \in Type |-> [i \in Id |-> None]]
  /\ entryList = <<>>
  /\ currentSize = 0 /\ maxSizeUsed = 0
  /\ adding = None /\ nsize = 0
  /\ refs = [d \in Data |-> 0] /\ held = [d \in Data |-> 0]
  /\ recent = None /\ overfull = FALSE

Idle == adding = None

\* May a caller use the cache?  AddEntry's failure is not reported, so callers
\* do go on after it; what follows is modelled when GoOn is TRUE.
Ready == Idle /\ (overfull => GoOn)

-----------------------------------------------------------------------------
(* Helpers                                                                 *)

Word(n) == n % WordMod

\* An unsigned difference assigned to the signed nsize.
Signed(n) == IF Word(n) >= WordMod \div 2 THEN Word(n) - WordMod ELSE Word(n)

\* The bytes of the entries of a set, and how many they are.
Bytes(es) == UNION {{e} \X (1..Size(e)) : e \in es}

SizeSum(es) == Cardinality(Bytes(es))

\* The sequence s without the elements of es: the j-th element left is the one
\* that has j places at or before its own among the places left.
Without(s, es) ==
  LET left == {i \in DOMAIN s : s[i] \notin es}
      Rank(i) == Cardinality({k \in left : k <= i})
  IN  [j \in 1..Cardinality(left) |-> s[CHOOSE i \in left : Rank(i) = j]]

\* n references less; an object without references is gone.
Less(c, n) == IF c > n THEN c - n ELSE 0

\* Slip: an entry is only taken from the list.
MutUnlink(es, gone) ==
  /\ entryList' = Without(entryList, es)
  /\ recent' = IF recent \in es THEN None ELSE recent
  /\ UNCHANGED <<idMap, refs>>

\* GWEN_MultiCache_ReleaseEntry for each of es, but for the size: out of the
\* list and out of the idmap, then the free function of the type.  The idmaps
\* of the types in gone are freed with them.
Unlink(es, gone) ==
  /\ entryList' = Without(entryList, es)
  /\ idMap' = [t \in Type |-> [i \in Id |->
                 IF t \in gone \/ \E e \in es : e.type = t /\ e.id = i
                 THEN None ELSE idMap[t][i]]]
  /\ refs' = [d \in Data |-> Less(refs[d], Cardinality({e \in es : e.data = d}))]
  /\ recent' = IF recent \in es THEN None ELSE recent

\* Slip: the size is subtracted twice, and signed.
MutReleaseEntries(es, gone) ==
  /\ Unlink(es, gone)
  /\ currentSize' = currentSize - 2 * SizeSum(es)

ReleaseEntries(es, gone) ==
  /\ Unlink(es, gone)
  /\ currentSize' = Word(currentSize - SizeSum(es))

Listed(t) == {e \in Range(entryList) : e.type = t}

\* The entry GWEN_MultiCache_Entry_IdMap_Find returns, as a set.
Found(t, i) == {idMap[t][i]} \ {None}

\* How much AddEntry must free for n more bytes.
Excess(n) == IF Word(currentSize' + n) > MaxSize
             THEN Signed(currentSize' + n - MaxSize) ELSE 0

-----------------------------------------------------------------------------
(* Types                                                                   *)

TypeNew(t) ==
  /\ Ready /\ t \notin types
  /\ types' = types \cup {t}
  /\ UNCHANGED <<idMap, entryList, currentSize, maxSizeUsed, adder, refs, held,
                 ghost>>

\* Only what is in the list is released; the idmap goes as it is.
TypeFree(t) ==
  /\ Ready /\ t \in types
  /\ ReleaseEntries(Listed(t), {t})
  /\ types' = types \ {t}
  /\ UNCHANGED <<maxSizeUsed, adder, held, overfull>>

\* Slip: the entry stays where it is.
MutUsingEntry(e) == UNCHANGED entryList

\* GWEN_MultiCache_UsingEntry: move the entry to the end of the list.
UsingEntry(e) ==
  entryList' = Append(Without(entryList, {e}), e)

\* GetData (p = NoParam) and GetDataWithParams.  An entry that is found
\* moves to the end of the list and the caller gets a reference.
GetData(t, i, p) ==
  /\ Ready /\ t \in types
  /\ \E e \in Found(t, i) :
       /\ held[e.data] < MaxHeld /\ p \in {NoParam, e.param}
       /\ UsingEntry(e)
       /\ refs' = [refs EXCEPT ![e.data] = @ + 1]
       /\ held' = [held EXCEPT ![e.data] = @ + 1]
       /\ recent' = e
  /\ UNCHANGED <<types, idMap, currentSize, maxSizeUsed, adder, overfull>>

PurgeData(t, i) ==
  /\ Ready /\ t \in types
  /\ ReleaseEntries(Found(t, i), {})
  /\ UNCHANGED <<types, maxSizeUsed, adder, held, overfull>>

PurgeAll(t) ==
  /\ Ready /\ t \in types
  /\ ReleaseEntries(Listed(t), {})
  /\ UNCHANGED <<types, maxSizeUsed, adder, held, overfull>>

-----------------------------------------------------------------------------
(* SetData and SetDataWithParams: PurgeData, AddEntry, IdMap_Insert        *)

SetData(t, i, d, p) ==
  /\ Ready /\ t \in types /\ held[d] > 0
  /\ ReleaseEntries(Found(t, i), {})
  /\ adding' = [type |-> t, id |-> i, data |-> d, param |-> p]
  /\ nsize' = Excess(SizeOf[d])
  /\ UNCHANGED <<types, maxSizeUsed, held, overfull>>

\* Slip: entries are counted, not their bytes.
MutMakeRoom ==
  /\ ~Idle /\ nsize > 0 /\ entryList # <<>>
  /\ nsize' = nsize - 1
  /\ ReleaseEntries({Head(entryList)}, {})
  /\ UNCHANGED <<types, maxSizeUsed, adding, held, overfull>>

\* An iteration of the loop of AddEntry.
MakeRoom ==
  /\ ~Idle /\ nsize > 0 /\ entryList # <<>>
  /\ nsize' = nsize - Size(Head(entryList))
  /\ ReleaseEntries({Head(entryList)}, {})
  /\ UNCHANGED <<types, maxSizeUsed, adding, held, overfull>>

IdMapInsert == idMap' = [idMap EXCEPT ![adding.type][adding.id] = adding]

\* AddEntry returns GWEN_ERROR_MEMORY_FULL, which its callers do not look at.
MemoryFull ==
  /\ ~Idle /\ nsize > 0 /\ entryList = <<>>
  /\ IdMapInsert
  /\ adding' = None /\ nsize' = 0
  /\ overfull' = TRUE
  /\ UNCHANGED <<types, entryList, currentSize, maxSizeUsed, refs, held, recent>>

AddEntry ==
  /\ ~Idle /\ nsize <= 0
  /\ currentSize' = Word(currentSize + Size(adding))
  /\ maxSizeUsed' = IF currentSize' > maxSizeUsed THEN currentSize'
                                                  ELSE maxSizeUsed
  /\ refs' = [refs EXCEPT ![adding.data] = @ + 1]
  /\ entryList' = Append(entryList, adding)
  /\ IdMapInsert
  /\ recent' = adding
  /\ adding' = None /\ nsize' = 0
  /\ UNCHANGED <<types, held, overfull>>

-----------------------------------------------------------------------------
(* GWEN_MultiCache_free, and a new cache in its place.  The types of the   *)
(* old one are of no use any more.                                         *)

MultiCacheFree ==
  /\ Idle
  /\ Unlink(Range(entryList), Type)
  /\ types' = {} /\ currentSize' = 0 /\ maxSizeUsed' = 0
  /\ UNCHANGED <<adder, held, overfull>>

-----------------------------------------------------------------------------
(* Callers create objects and give up their references to them.            *)

Create(d) ==
  /\ Idle /\ refs[d] = 0
  /\ refs' = [refs EXCEPT ![d] = 1]
  /\ held' = [held EXCEPT ![d] = 1]
  /\ UNCHANGED <<cache, adder, ghost>>

Drop(d) ==
  /\ Idle /\ held[d] > 0
  /\ refs' = [refs EXCEPT ![d] = Less(@, 1)]
  /\ held' = [held EXCEPT ![d] = @ - 1]
  /\ UNCHANGED <<cache, adder, ghost>>

-----------------------------------------------------------------------------
Next ==
  \/ \E t \in Type :
       \/ TypeNew(t) \/ TypeFree(t) \/ PurgeAll(t)
       \/ \E i \in Id : \/ PurgeData(t, i)
                        \/ \E p \in Param : GetData(t, i, p)
                        \/ \E d \in Data, p \in Param : SetData(t, i, d, p)
  \/ MakeRoom \/ MemoryFull \/ AddEntry \/ MultiCacheFree
  \/ \E d \in Data : Create(d) \/ Drop(d)

Spec == Init /\ [][Next]_vars

-----------------------------------------------------------------------------
(* Properties                                                              *)

\* What can be found in the cache, by any type and id.
Retrievable == {idMap[t][i] : t \in Type, i \in Id} \ {None}

\* An object is found through the idmap of its type exactly while it is in
\* the list, and no entry is in the list twice: ReleaseEntry and AddEntry
\* keep the two containers together on every path.
MapMatchesList ==
  overfull \/ /\ Retrievable = Range(entryList)
              /\ Cardinality(Range(entryList)) = Len(entryList)

\* currentSize, which AddEntry and ReleaseEntry count up and down modulo
\* 2^64, is the size of the entries in the list, and no more than maxSize.
SizeAccounting ==
  overfull \/ /\ currentSize = SizeSum(Range(entryList))
              /\ currentSize <= MaxSize

\* The attach and free functions are called in pairs: an object has the
\* references of its users and one for each entry, so that nothing in the
\* cache is ever freed memory and nothing outlives cache and users.
RefsBalanced ==
  overfull \/ \A d \in Data :
    refs[d] = held[d] + Cardinality({e \in Range(entryList) : e.data = d})

\* An object a caller holds a reference to is alive: the cache gives up only
\* references it has taken.
CallersObjectsLive == \A d \in Data : refs[d] >= held[d]

\* AddEntry drops an entry only while the new one does not fit: nsize,
\* computed once, stays in step with currentSize.
DropsOnlyForRoom == 
  [][MakeRoom /\ ~overfull => currentSize + Size(adding) > MaxSize]_vars

\* The entry used last (returned by GetData or added) is dropped only when
\* it is the only one left.
RecentDroppedLast ==
  [][MakeRoom /\ ~overfull /\ recent # None /\ recent' = None
       => Len(entryList) = 1]_vars
=============================================================================
