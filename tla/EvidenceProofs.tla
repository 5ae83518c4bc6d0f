--------------------------- MODULE EvidenceProofs ---------------------------
(***************************************************************************)
(* For any processes, contents and uses: what put() has returned stays in  *)
(* the index with a blob behind it, and the index only grows.              *)
(*                                                                         *)
(* The argument: the flock leaves one process inside the directory, so     *)
(* the index that process has in memory is the one on disk until it        *)
(* replaces it, and the blob it has looked for stays there.                *)
(***************************************************************************)
EXTENDS EvidenceStore, TLAPS

\* The flock admits one process.
OneInside == \A w \in Writers : pc[w] # "closed" => owner = w

\* What a process inside the directory knows of the disk.
KnowsAt(w) ==
    /\ pc[w] \in {"ready", "blob", "index"} => known[w] = index
    /\ pc[w] = "return" => index = Append(known[w], draft[w])
    /\ pc[w] \in {"blob", "index", "return"} => draft[w] \in Entry
    /\ pc[w] \in {"blob", "index"} => draft[w] \notin Listed(known[w])
    /\ pc[w] = "blob" => blobs[draft[w].sha] = "absent"
    /\ pc[w] = "index" => blobs[draft[w].sha] # "absent"

Knows == \A w \in Writers : KnowsAt(w)

IInv == TypeOK /\ OneInside /\ Knows /\ ReferencesResolve /\ EntriesAreDistinct

-----------------------------------------------------------------------------
(* What one step keeps                                                     *)

\* An index with one more entry lists that entry besides the others.
LEMMA ListedAppend ==
    ASSUME NEW entries \in Seq(Entry), NEW entry \in Entry
    PROVE  /\ Listed(Append(entries, entry)) = Listed(entries) \cup {entry}
           /\ Len(Append(entries, entry)) = Len(entries) + 1
           /\ Append(entries, entry) \in Seq(Entry)
           /\ \A i \in DOMAIN entries : Append(entries, entry)[i] = entries[i]
<1> DEFINE n == Len(entries)
           more == Append(entries, entry)
<1>1. /\ n \in Nat /\ DOMAIN entries = 1 .. n
      /\ more \in Seq(Entry) /\ Len(more) = n + 1 /\ DOMAIN more = 1 .. n + 1
      /\ more[n + 1] = entry /\ \A i \in 1 .. n : more[i] = entries[i]
  OBVIOUS
<1>2. \A i \in 1 .. n + 1 : i \in 1 .. n \/ i = n + 1
  BY <1>1
<1>3. 1 .. n \subseteq 1 .. n + 1 /\ n + 1 \in 1 .. n + 1
  BY <1>1
<1> QED
  BY <1>1, <1>2, <1>3 DEF Listed

\* A process stands where nobody else does, and the step of another one
\* finds it outside.
LEMMA Alone ==
    ASSUME OneInside, NEW w \in Writers, NEW v \in Writers, pc[w] # "closed", v # w
    PROVE  pc[v] = "closed"
  BY DEF OneInside

\* Every step keeps the types.
LEMMA TypeStep ==
    ASSUME TypeOK, OneInside, Knows, [Next]_vars
    PROVE  TypeOK'
<1> USE DEF TypeOK, Goto
<1>1. ASSUME NEW w \in Writers, Open(w) PROVE TypeOK'
  BY <1>1 DEF Open
<1>2. ASSUME NEW w \in Writers, WriteBlob(w) PROVE TypeOK'
  BY <1>2 DEF WriteBlob
<1>3. ASSUME NEW w \in Writers, WriteIndex(w) PROVE TypeOK'
  <2>1. draft[w] \in Entry /\ known[w] \in Seq(Entry)
    BY <1>3 DEF WriteIndex, Knows, KnowsAt
  <2>2. index' \in Seq(Entry)
    BY <1>3, <2>1, ListedAppend DEF WriteIndex
  <2> QED
    BY <1>3, <2>2 DEF WriteIndex
<1>4. ASSUME NEW w \in Writers, Return(w) PROVE TypeOK'
  <2>1. draft[w] \in Entry /\ known[w] \in Seq(Entry)
    BY <1>4 DEF Return, Knows, KnowsAt
  <2>2. known' \in [Writers -> Seq(Entry)]
    BY <1>4, <2>1, ListedAppend DEF Return
  <2> QED
    BY <1>4, <2>1, <2>2 DEF Return
<1>5. ASSUME NEW w \in Writers, WriteFails(w) PROVE TypeOK'
  BY <1>5 DEF WriteFails
<1>6. ASSUME NEW w \in Writers, Leave(w) PROVE TypeOK'
  BY <1>6 DEF Leave
<1>7. ASSUME NEW w \in Writers, NEW entry \in Entry, Put(w, entry) PROVE TypeOK'
  <2>1. pc' \in [Writers -> {"closed", "ready", "blob", "index", "return"}]
    BY <1>7 DEF Put
  <2>2. draft' \in [Writers -> Entry \cup {NoEntry}]
    BY <1>7 DEF Put
  <2>3. returned' \subseteq Entry
    BY <1>7 DEF Put
  <2>4. UNCHANGED <<blobs, index, owner, known>>
    BY <1>7 DEF Put
  <2> QED
    BY <2>1, <2>2, <2>3, <2>4
<1>8. ASSUME NEW c \in Contents, Rot(c) PROVE TypeOK'
  BY <1>8 DEF Rot
<1>9. CASE UNCHANGED vars
  BY <1>9 DEF vars
<1> QED
  BY <1>1, <1>2, <1>3, <1>4, <1>5, <1>6, <1>7, <1>8, <1>9 DEF Next, Step

\* Only a free lock is taken, and who leaves frees it.
LEMMA OneInsideStep ==
    ASSUME TypeOK, OneInside, [Next]_vars
    PROVE  OneInside'
  BY EvidenceAssumption DEF TypeOK, OneInside, Next, Step, vars, Goto, Open, WriteBlob,
     WriteIndex, Return, WriteFails, Leave, Put, Rot

\* What the process inside knows stays true: nobody else is there to change it.
LEMMA KnowsStep ==
    ASSUME TypeOK, OneInside, Knows, [Next]_vars
    PROVE  Knows'
<1> USE DEF TypeOK, Goto
<1>0. SUFFICES ASSUME NEW v \in Writers PROVE KnowsAt(v)'
  BY DEF Knows
<1>k. KnowsAt(v) /\ draft[v] \in Entry \cup {NoEntry}
  BY DEF Knows
<1>1. ASSUME NEW w \in Writers, Open(w) PROVE KnowsAt(v)'
  <2>1. CASE v = w
    BY <1>1, <2>1 DEF Open, KnowsAt
  <2>2. CASE v # w
    BY <1>1, <1>k, <2>2 DEF Open, KnowsAt
  <2> QED
    BY <2>1, <2>2
<1>2. ASSUME NEW w \in Writers, WriteBlob(w) PROVE KnowsAt(v)'
  <2>1. CASE v = w
    BY <1>2, <1>k, <2>1 DEF WriteBlob, KnowsAt, Entry
  <2>2. CASE v # w
    BY <1>2, <2>2, Alone DEF WriteBlob, KnowsAt
  <2> QED
    BY <2>1, <2>2
<1>3. ASSUME NEW w \in Writers, WriteIndex(w) PROVE KnowsAt(v)'
  <2>1. CASE v = w
    BY <1>3, <1>k, <2>1 DEF WriteIndex, KnowsAt
  <2>2. CASE v # w
    BY <1>3, <2>2, Alone DEF WriteIndex, KnowsAt
  <2> QED
    BY <2>1, <2>2
<1>4. ASSUME NEW w \in Writers, Return(w) PROVE KnowsAt(v)'
  <2>1. CASE v = w
    BY <1>4, <1>k, <2>1 DEF Return, KnowsAt
  <2>2. CASE v # w
    BY <1>4, <2>2, Alone DEF Return, KnowsAt
  <2> QED
    BY <2>1, <2>2
<1>5. ASSUME NEW w \in Writers, WriteFails(w) PROVE KnowsAt(v)'
  BY <1>5, <1>k DEF WriteFails, KnowsAt
<1>6. ASSUME NEW w \in Writers, Leave(w) PROVE KnowsAt(v)'
  BY <1>6, <1>k DEF Leave, KnowsAt
<1>7. ASSUME NEW w \in Writers, NEW entry \in Entry, Put(w, entry) PROVE KnowsAt(v)'
  <2>1. CASE v = w
    BY <1>7, <1>k, <2>1 DEF Put, KnowsAt
  <2>2. CASE v # w
    BY <1>7, <1>k, <2>2 DEF Put, KnowsAt
  <2> QED
    BY <2>1, <2>2
<1>8. ASSUME NEW c \in Contents, Rot(c) PROVE KnowsAt(v)'
  BY <1>8, <1>k DEF Rot, KnowsAt, Entry
<1>9. CASE UNCHANGED vars
  BY <1>9, <1>k DEF vars, KnowsAt
<1> QED
  BY <1>1, <1>2, <1>3, <1>4, <1>5, <1>6, <1>7, <1>8, <1>9 DEF Next, Step

\* The index changes in one way: the writer's draft is appended to it.
LEMMA IndexStep ==
    ASSUME TypeOK, Knows, [Next]_vars, index' # index
    PROVE  \E w \in Writers : /\ pc[w] = "index" /\ draft[w] \in Entry
                              /\ draft[w] \notin Listed(index)
                              /\ blobs[draft[w].sha] # "absent"
                              /\ index' = Append(index, draft[w])
                              /\ UNCHANGED <<blobs, returned>>
<1>1. PICK w \in Writers : WriteIndex(w)
  BY DEF Next, Step, vars, Open, WriteBlob, Return, WriteFails, Leave, Put, Rot
<1> QED
  BY <1>1 DEF WriteIndex, Knows, KnowsAt

\* Blobs do not go away.
LEMMA BlobsStay ==
    ASSUME TypeOK, [Next]_vars, NEW c \in Contents, blobs[c] # "absent"
    PROVE  blobs'[c] # "absent"
  BY DEF TypeOK, Next, Step, vars, Open, WriteBlob, WriteIndex, Return, WriteFails,
     Leave, Put, Rot

\* What is returned is listed: it was found in the index or appended to it.
LEMMA ReturnedStep ==
    ASSUME TypeOK, Knows, [Next]_vars, NEW entry \in returned' \ returned
    PROVE  entry \in Listed(index) /\ index' = index
<1>1. CASE \E w \in Writers : Return(w)
  <2>1. PICK w \in Writers : Return(w)
    BY <1>1
  <2>2. entry = draft[w] /\ index' = index
    BY <2>1 DEF Return
  <2>3. /\ known[w] \in Seq(Entry) /\ draft[w] \in Entry
        /\ index = Append(known[w], draft[w])
    BY <2>1 DEF Return, TypeOK, Knows, KnowsAt
  <2> QED
    BY <2>2, <2>3, ListedAppend
<1>2. CASE \E w \in Writers, e \in Entry : Put(w, e)
  <2>1. PICK w \in Writers, e \in Entry : Put(w, e)
    BY <1>2
  <2>2. entry \in Listed(known[w]) /\ index' = index /\ pc[w] = "ready"
    BY <2>1 DEF Put
  <2> QED
    BY <2>2 DEF Knows, KnowsAt
<1> QED
  BY <1>1, <1>2 DEF Next, Step, vars, Open, WriteBlob, WriteIndex, WriteFails, Leave, Rot

\* References go on resolving.
LEMMA ReferencesStep ==
    ASSUME TypeOK, Knows, ReferencesResolve, [Next]_vars
    PROVE  ReferencesResolve'
<1>1. CASE index' = index
  <2>1. \A entry \in Listed(index) : blobs'[entry.sha] # "absent"
    <3>1. \A entry \in Listed(index) : entry \in Entry
      BY DEF TypeOK, Listed
    <3> QED
      BY <3>1, BlobsStay DEF ReferencesResolve, Entry
  <2>2. returned' \subseteq Listed(index)
    BY ReturnedStep DEF ReferencesResolve
  <2> QED
    BY <1>1, <2>1, <2>2 DEF ReferencesResolve, Listed
<1>2. CASE index' # index
  <2>1. PICK w \in Writers : /\ draft[w] \in Entry
                             /\ blobs[draft[w].sha] # "absent"
                             /\ index' = Append(index, draft[w])
                             /\ UNCHANGED <<blobs, returned>>
    BY <1>2, IndexStep
  <2>2. index \in Seq(Entry)
    BY DEF TypeOK
  <2>3. Listed(index)' = Listed(index) \cup {draft[w]}
    BY <2>1, <2>2, ListedAppend DEF Listed
  <2> QED
    BY <2>1, <2>3 DEF ReferencesResolve
<1> QED
  BY <1>1, <1>2

\* A new entry is in no earlier place.
LEMMA DistinctStep ==
    ASSUME TypeOK, Knows, EntriesAreDistinct, [Next]_vars
    PROVE  EntriesAreDistinct'
<1>1. CASE index' = index
  BY <1>1 DEF EntriesAreDistinct
<1>2. CASE index' # index
  <2>1. PICK w \in Writers : /\ draft[w] \in Entry /\ draft[w] \notin Listed(index)
                             /\ index' = Append(index, draft[w])
    BY <1>2, IndexStep
  <2> DEFINE n == Len(index)
  <2>2. /\ n \in Nat /\ DOMAIN index = 1 .. n /\ DOMAIN index' = 1 .. n + 1
        /\ index'[n + 1] = draft[w] /\ \A i \in 1 .. n : index'[i] = index[i]
    BY <2>1 DEF TypeOK
  <2>3. \A i \in 1 .. n : index[i] # draft[w]
    BY <2>1, <2>2 DEF Listed
  <2>4. \A i \in 1 .. n + 1 : i \in 1 .. n \/ i = n + 1
    BY <2>2
  <2> QED
    BY <2>2, <2>3, <2>4 DEF EntriesAreDistinct
<1> QED
  BY <1>1, <1>2

-----------------------------------------------------------------------------
(* The theorems                                                            *)

\* An empty directory satisfies the invariant and every step keeps it.
THEOREM Invariant == Spec => []IInv
<1>1. Init => IInv
  <2>1. Init => TypeOK
    BY DEF Init, TypeOK
  <2>2. Init => OneInside /\ Knows
    BY DEF Init, OneInside, Knows, KnowsAt
  <2>3. Init => ReferencesResolve /\ EntriesAreDistinct
    BY DEF Init, ReferencesResolve, EntriesAreDistinct, Listed
  <2> QED
    BY <2>1, <2>2, <2>3 DEF IInv
<1>2. IInv /\ [Next]_vars => IInv'
  BY TypeStep, OneInsideStep, KnowsStep, ReferencesStep, DistinctStep DEF IInv
<1> QED
  BY <1>1, <1>2, PTL DEF Spec

\* The state of an evidence directory keeps its types.
THEOREM TypeCorrect == Spec => []TypeOK
<1>1. IInv => TypeOK
  BY DEF IInv
<1> QED
  BY <1>1, Invariant, PTL

\* Every reference that put() has returned stays in the index with a blob
\* behind it, whichever processes come and die.
THEOREM ReferencesStay == Spec => []ReferencesResolve
<1>1. IInv => ReferencesResolve
  BY DEF IInv
<1> QED
  BY <1>1, Invariant, PTL

\* No bytes are listed twice for one use.
THEOREM NoDuplicates == Spec => []EntriesAreDistinct
<1>1. IInv => EntriesAreDistinct
  BY DEF IInv
<1> QED
  BY <1>1, Invariant, PTL

\* The index grows at its end only: no process overwrites another's entries.
THEOREM IndexOnlyGrows == Spec => IndexGrows
<1>1. IInv /\ [Next]_vars =>
          [/\ Len(index) <= Len(index')
           /\ \A i \in DOMAIN index : index'[i] = index[i]]_vars
  <2> SUFFICES ASSUME IInv, [Next]_vars
               PROVE  /\ Len(index) <= Len(index')
                      /\ \A i \in DOMAIN index : index'[i] = index[i]
    OBVIOUS
  <2>1. index \in Seq(Entry)
    BY DEF IInv, TypeOK
  <2>2. CASE index' = index
    BY <2>1, <2>2
  <2>3. CASE index' # index
    BY <2>1, <2>3, IndexStep, ListedAppend DEF IInv
  <2> QED
    BY <2>2, <2>3
<1> QED
  BY <1>1, Invariant, PTL DEF Spec, IndexGrows

\* A rotten blob is never written again.
THEOREM RottenStays == Spec => CorruptionIsPreserved
<1>1. IInv /\ [Next]_vars =>
          [\A c \in Contents : blobs[c] = "rotten" => blobs'[c] = "rotten"]_vars
  <2> SUFFICES ASSUME IInv, [Next]_vars, NEW c \in Contents, blobs[c] = "rotten"
               PROVE  blobs'[c] = "rotten"
    OBVIOUS
  <2> QED
    BY DEF IInv, TypeOK, Next, Step, vars, Open, WriteBlob, WriteIndex, Return,
       WriteFails, Leave, Put, Rot, Knows, KnowsAt
<1> QED
  BY <1>1, Invariant, PTL DEF Spec, CorruptionIsPreserved
=============================================================================
