---------------------------- MODULE IndexProofs -----------------------------
(***************************************************************************)
(* Machine-checked proofs about ssd-index.  TextChunker, for files and     *)
(* windows of any size: which lines the chunks hold.  FileStore, for any   *)
(* chunk ids, contents, path prefixes and number of faults: the invariants *)
(* of the open handle and its files, and that it implements IndexStore.    *)
(* IndexDirectory, for any finite tree of files that change and fail in    *)
(* any way: the report of a run adds up and hides no failure.              *)
(***************************************************************************)
EXTENDS FileStore, IndexDirectory, TLAPS, FiniteSetTheorems, SequenceTheorems

-----------------------------------------------------------------------------
(* The chunker.                                                              *)
ChunkTypes ==
    /\ n_lines \in Nat /\ window \in Nat /\ stride \in Nat /\ start \in Nat
    /\ stride < window
    /\ done \in BOOLEAN
    /\ chunks \in Seq(Nat \X Nat)

\* The next chunk starts inside the file, a step after the last one, and past
\* every chunk pushed so far.
NextStart ==
    ~done =>
      /\ start < n_lines
      /\ \A i \in DOMAIN chunks :
            /\ chunks[i][1] < start
            /\ i = Len(chunks) => chunks[i][1] + Step = start
            /\ chunks[i][2] = chunks[i][1] + window

\* Neighbours are a step apart, a chunk that has a successor has a full window,
\* and chunks are in the order of their first lines.
Spaced ==
    \A i, j \in DOMAIN chunks :
        /\ i < j => chunks[i][1] < chunks[j][1]
        /\ j = i + 1 => /\ chunks[j][1] = chunks[i][1] + Step
                        /\ chunks[i][2] = chunks[i][1] + window

ChunkInv == ChunkTypes /\ NextStart /\ Spaced /\ Coverage

\* Before the first chunk.
LEMMA ChunkInit == Init => ChunkInv
<1> SUFFICES ASSUME Init PROVE ChunkInv
  OBVIOUS
<1>1. /\ n_lines \in Nat /\ window \in Nat /\ stride \in Nat
      /\ stride < window /\ start = 0 /\ chunks = <<>> /\ done = (n_lines = 0)
  BY ChunkerAssumption DEF Init, Valid
<1>2. DOMAIN chunks = {}
  BY <1>1
<1>3. ChunkTypes
  BY <1>1 DEF ChunkTypes
<1>4. NextStart /\ Spaced
  <2>1. ~done => start < n_lines
    <3>1. ~done => n_lines # 0
      BY <1>1
    <3> QED BY <1>1, <3>1
  <2> QED BY <2>1, <1>2 DEF NextStart, Spaced
<1>5. Coverage
  <2> SUFFICES ASSUME NEW l \in 0..n_lines - 1, done \/ l < start PROVE FALSE
    BY DEF Coverage
  <2>1. n_lines # 0 /\ ~(l < start)
    BY <1>1
  <2>2. ~done
    BY <1>1, <2>1
  <2> QED BY <2>1, <2>2
<1> QED BY <1>3, <1>4, <1>5 DEF ChunkInv

\* A chunk more, or the end of the loop.
LEMMA ChunkStep == ChunkInv /\ [Next]_vars => ChunkInv'
<1> SUFFICES ASSUME ChunkInv, [Next]_vars PROVE ChunkInv'
  OBVIOUS
<1>1. CASE Push
  <2> DEFINE n == Len(chunks)
             new == <<start, End>>
  <2>1. /\ n_lines \in Nat /\ window \in Nat /\ stride \in Nat /\ start \in Nat
        /\ stride < window /\ ~done /\ chunks \in Seq(Nat \X Nat)
        /\ n_lines' = n_lines /\ window' = window /\ stride' = stride
        /\ done' = (End = n_lines)
        /\ start' = IF done' THEN start ELSE start + Step
        /\ start < n_lines
    BY <1>1 DEF Push, ChunkInv, ChunkTypes, NextStart
  <2>2. /\ Step \in Nat /\ Step > 0 /\ Step <= window /\ Step' = Step
        /\ End \in Nat /\ start < End /\ End <= n_lines
        /\ End # n_lines => End = start + window /\ start + window < n_lines
    BY <2>1 DEF Step, End
  <2>3. /\ new \in Nat \X Nat /\ new[1] = start /\ new[2] = End
    BY <2>1, <2>2
  <2>4. chunks' = Append(chunks, new)
    BY <1>1 DEF Push
  <2> HIDE DEF new
  <2>5. /\ n \in Nat
        /\ chunks' \in Seq(Nat \X Nat)
        /\ Len(chunks') = n + 1
        /\ DOMAIN chunks = 1..n /\ DOMAIN chunks' = 1..n + 1
        /\ chunks'[n + 1] = new
        /\ \A i \in 1..n : chunks'[i] = chunks[i]
    BY <2>1, <2>3, <2>4
  <2>6. \A i \in 1..n : chunks[i][1] \in Nat /\ chunks[i][2] \in Nat
    <3>1. \A i \in 1..n : chunks[i] \in Nat \X Nat
      BY <2>1, <2>5
    <3> QED BY <3>1
  <2>7. \A i \in 1..n : /\ chunks[i][1] < start
                        /\ i = n => chunks[i][1] + Step = start
                        /\ chunks[i][2] = chunks[i][1] + window
    BY <2>1, <2>5 DEF ChunkInv, NextStart
  <2>8. ChunkTypes'
    BY <2>1, <2>2, <2>5 DEF ChunkTypes
  <2>9. NextStart'
    <3> SUFFICES ASSUME ~done'
                 PROVE  /\ start' < n_lines
                        /\ \A i \in 1..n + 1 :
                              /\ chunks'[i][1] < start'
                              /\ i = n + 1 => chunks'[i][1] + Step = start'
                              /\ chunks'[i][2] = chunks'[i][1] + window
      BY <2>1, <2>2, <2>5 DEF NextStart
    <3>0. End # n_lines /\ start' = start + Step
      BY <2>1
    <3>1. End = start + window /\ start' < n_lines
      BY <3>0, <2>1, <2>2
    <3>2. ASSUME NEW i \in 1..n
          PROVE  /\ chunks'[i][1] < start'
                 /\ i # n + 1
                 /\ chunks'[i][2] = chunks'[i][1] + window
      <4>1. i # n + 1 /\ chunks'[i] = chunks[i]
        BY <2>5
      <4>2. /\ chunks[i][1] \in Nat /\ chunks[i][1] < start
            /\ chunks[i][2] = chunks[i][1] + window
        BY <2>6, <2>7
      <4>3. chunks[i][1] < start'
        BY <4>2, <3>0, <2>1, <2>2
      <4> QED BY <4>1, <4>2, <4>3
    <3>3. /\ chunks'[n + 1][1] < start'
          /\ chunks'[n + 1][1] + Step = start'
          /\ chunks'[n + 1][2] = chunks'[n + 1][1] + window
      BY <2>1, <2>2, <2>3, <2>5, <3>0, <3>1
    <3>4. \A i \in 1..n + 1 : i \in 1..n \/ i = n + 1
      BY <2>5
    <3> QED BY <3>1, <3>2, <3>3, <3>4
  <2>10. Spaced'
    <3>1. \A i, j \in 1..n :
             /\ i < j => chunks'[i][1] < chunks'[j][1]
             /\ j = i + 1 => /\ chunks'[j][1] = chunks'[i][1] + Step
                             /\ chunks'[i][2] = chunks'[i][1] + window
      BY <2>5 DEF ChunkInv, Spaced
    <3>2. \A i \in 1..n :
             /\ chunks'[i][1] < chunks'[n + 1][1]
             /\ n + 1 = i + 1 => /\ chunks'[n + 1][1] = chunks'[i][1] + Step
                                 /\ chunks'[i][2] = chunks'[i][1] + window
      <4> SUFFICES ASSUME NEW i \in 1..n
                   PROVE  /\ chunks'[i][1] < chunks'[n + 1][1]
                          /\ n + 1 = i + 1 =>
                               /\ chunks'[n + 1][1] = chunks'[i][1] + Step
                               /\ chunks'[i][2] = chunks'[i][1] + window
        OBVIOUS
      <4>1. chunks'[i] = chunks[i] /\ chunks'[n + 1][1] = start
        BY <2>3, <2>5
      <4>2. n + 1 = i + 1 => i = n
        <5>1. n \in Nat
          BY <2>5
        <5>2. i \in Nat
          BY <5>1
        <5> HIDE DEF n
        <5> QED BY <5>1, <5>2
      <4> QED BY <2>7, <4>1, <4>2
    <3>3. \A i \in 1..n + 1 : /\ i \in 1..n \/ i = n + 1
                              /\ ~(n + 1 < i) /\ i # n + 2
      BY SMTT(30), <2>5
    <3>4. ASSUME NEW i \in 1..n + 1, NEW j \in 1..n + 1
          PROVE  /\ i < j => chunks'[i][1] < chunks'[j][1]
                 /\ j = i + 1 => /\ chunks'[j][1] = chunks'[i][1] + Step
                                 /\ chunks'[i][2] = chunks'[i][1] + window
      <4>1. CASE i \in 1..n /\ j \in 1..n
        BY <3>1, <4>1
      <4>2. CASE i \in 1..n /\ j = n + 1
        BY <3>2, <4>2
      <4>3. CASE i = n + 1
        <5>1. ~(i < j) /\ j # i + 1
          BY <4>3, <2>5
        <5> QED BY <5>1
      <4> QED BY <3>3, <4>1, <4>2, <4>3
    <3> QED BY <3>4, <2>1, <2>2, <2>5 DEF Spaced
  <2>11. Coverage'
    <3> SUFFICES ASSUME NEW l \in 0..n_lines - 1, done' \/ l < start'
                 PROVE  \E i \in 1..n + 1 : chunks'[i][1] <= l /\ l < chunks'[i][2]
      BY <2>1, <2>5 DEF Coverage
    <3>1. CASE l < start
      <4>1. PICK i \in 1..n : chunks[i][1] <= l /\ l < chunks[i][2]
        BY <3>1, <2>5 DEF ChunkInv, Coverage
      <4>2. i \in 1..n + 1 /\ chunks'[i] = chunks[i]
        BY <2>5
      <4> QED BY <4>1, <4>2
    <3>2. CASE ~(l < start)
      <4>1. start <= l /\ l < End
        <5>1. l \in Nat /\ l < n_lines /\ start <= l
          BY <3>2, <2>1
        <5>2. CASE End = n_lines
          BY <5>1, <5>2
        <5>3. CASE End # n_lines
          <6>1. l < start + Step
            BY <5>3, <2>1
          <6> QED BY <5>1, <5>3, <6>1, <2>1, <2>2
        <5> QED BY <5>2, <5>3
      <4>2. n + 1 \in 1..n + 1 /\ chunks'[n + 1][1] = start /\ chunks'[n + 1][2] = End
        BY <2>3, <2>5
      <4> QED BY <4>1, <4>2
    <3> QED BY <3>1, <3>2
  <2> QED BY <2>8, <2>9, <2>10, <2>11 DEF ChunkInv
<1>2. CASE UNCHANGED vars
  BY <1>2 DEF vars, ChunkInv, ChunkTypes, NextStart, Spaced, Coverage, Step
<1> QED BY <1>1, <1>2 DEF Next

\* The loop of the chunker: the invariant holds at every step.
THEOREM ChunkInvariant == Spec => []ChunkInv
<1> QED BY ChunkInit, ChunkStep, PTL DEF Spec

\* The loop never reads line_info out of range, for any window and any file.
THEOREM NeverOutOfBounds == Spec => []InBounds
<1>1. ChunkInv => InBounds
  BY DEF ChunkInv, ChunkTypes, NextStart, InBounds, End
<1> QED BY <1>1, ChunkInvariant, PTL

\* Neighbouring chunks overlap by exactly the configured stride and start at
\* different lines.
THEOREM OverlapIsExact == Spec => []Overlap
<1>1. ChunkInv => Overlap
  <2> SUFFICES ASSUME ChunkInv, NEW i \in DOMAIN chunks, NEW j \in DOMAIN chunks
               PROVE  /\ i < j => chunks[i][1] < chunks[j][1]
                      /\ j = i + 1 => chunks[i][2] - chunks[j][1] = stride
    BY DEF Overlap
  <2>1. chunks[i] \in Nat \X Nat /\ stride \in Nat /\ window \in Nat
    BY DEF ChunkInv, ChunkTypes
  <2>2. chunks[i][1] \in Nat
    BY <2>1
  <2>3. /\ i < j => chunks[i][1] < chunks[j][1]
        /\ j = i + 1 => /\ chunks[j][1] = chunks[i][1] + Step
                        /\ chunks[i][2] = chunks[i][1] + window
    BY DEF ChunkInv, Spaced
  <2> QED BY <2>1, <2>2, <2>3 DEF Step
<1> QED BY <1>1, ChunkInvariant, PTL

\* No line of a file is left out of the chunks.
THEOREM EveryLineIsCovered == Spec => []Coverage
<1>1. ChunkInv => Coverage
  BY DEF ChunkInv
<1> QED BY <1>1, ChunkInvariant, PTL

\* The three together, for files and windows of any size.
THEOREM ChunksAreSound == Spec => []ChunksInv
<1>1. InBounds /\ Coverage /\ Overlap => ChunksInv
  BY DEF ChunksInv
<1> QED BY <1>1, NeverOutOfBounds, OverlapIsExact, EveryLineIsCovered, PTL

-----------------------------------------------------------------------------
(* The file store.                                                           *)
USE FileStoreAssumption

-----------------------------------------------------------------------------
UniqueIds(s) == \A i, j \in DOMAIN s : s[i][1] = s[j][1] => i = j

\* IndexOf is the inverse of a list of records that repeats no id.
LEMMA IndexOfInverse ==
  ASSUME NEW s \in Seq(Entry), UniqueIds(s)
  PROVE  /\ DOMAIN IndexOf(s) = {s[i][1] : i \in DOMAIN s}
         /\ \A i \in DOMAIN s : IndexOf(s)[s[i][1]] = i
<1>1. DOMAIN IndexOf(s) = {s[i][1] : i \in DOMAIN s}
  BY DEF IndexOf
<1>2. ASSUME NEW i \in DOMAIN s PROVE IndexOf(s)[s[i][1]] = i
  <2> DEFINE c == CHOOSE j \in DOMAIN s : s[j][1] = s[i][1]
  <2>1. c \in DOMAIN s /\ s[c][1] = s[i][1]
    OBVIOUS
  <2>2. IndexOf(s)[s[i][1]] = c
    BY DEF IndexOf
  <2> HIDE DEF c
  <2> QED BY <2>1, <2>2 DEF UniqueIds
<1> QED BY <1>1, <1>2

\* So is the map that the abstract store shows for it.
LEMMA MapOfRecords ==
  ASSUME NEW s \in Seq(Entry), UniqueIds(s)
  PROVE  /\ DOMAIN MapOf(s) = {s[i][1] : i \in DOMAIN s}
         /\ \A i \in DOMAIN s : MapOf(s)[s[i][1]] = s[i][2]
         /\ DOMAIN MapOf(s) \subseteq Ids
         /\ MapOf(s) \in [DOMAIN MapOf(s) -> Versions]
<1>1. /\ DOMAIN MapOf(s) = {s[i][1] : i \in DOMAIN s}
      /\ MapOf(s) = [id \in DOMAIN MapOf(s) |-> MapOf(s)[id]]
  BY DEF MapOf
<1>2. ASSUME NEW i \in DOMAIN s PROVE MapOf(s)[s[i][1]] = s[i][2]
  <2> DEFINE c == CHOOSE j \in DOMAIN s : s[j][1] = s[i][1]
  <2>1. c \in DOMAIN s /\ s[c][1] = s[i][1]
    OBVIOUS
  <2>2. MapOf(s)[s[i][1]] = s[c][2]
    BY DEF MapOf
  <2> HIDE DEF c
  <2> QED BY <2>1, <2>2 DEF UniqueIds
<1>3. \A i \in DOMAIN s : s[i][1] \in Ids /\ s[i][2] \in Versions
  <2> SUFFICES ASSUME NEW i \in DOMAIN s PROVE s[i][1] \in Ids /\ s[i][2] \in Versions
    OBVIOUS
  <2>1. s[i] \in Ids \X Versions
    BY DEF Entry
  <2> QED BY <2>1
<1>4. \A id \in DOMAIN MapOf(s) : id \in Ids /\ MapOf(s)[id] \in Versions
  BY <1>1, <1>2, <1>3
<1> QED BY <1>1, <1>2, <1>4

\* What open reads is not mistaken for a missing or torn file, nor a map for
\* one of the values of the abstract store.
LEMMA MapNotSpecial ==
  ASSUME NEW s \in Seq(Entry), UniqueIds(s)
  PROVE  MapOf(s) # Closed /\ MapOf(s) # Unreliable
<1>1. DOMAIN MapOf(s) \in SUBSET Ids /\ MapOf(s) \in [DOMAIN MapOf(s) -> Versions]
  BY MapOfRecords
<1> QED BY <1>1

\* Nothing stored has no ids and no rows.
LEMMA NoRecords == UniqueIds(<<>>) /\ DOMAIN MapOf(<<>>) = {} /\ <<>> \in Seq(Entry)
BY DEF UniqueIds, MapOf

\* A file's content is not the mark of a missing or of a torn file.
LEMMA FileValues ==
  /\ \A n \in Nat : n # Missing /\ n # Torn
  /\ \A s \in Seq(Entry) : s # Missing /\ s # Torn
BY Zenon

\* The positions that a removal keeps.
LEMMA KeptPositions ==
  ASSUME NEW P, chunk_list \in Seq(Entry), NEW f \in KeptAt(P)
  PROVE  /\ f \in Seq(1..Len(chunk_list))
         /\ \A k \in 1..Len(f) : chunk_list[f[k]][1] \notin P
         /\ \A i \in 1..Len(chunk_list) :
               chunk_list[i][1] \notin P => \E k \in 1..Len(f) : f[k] = i
         /\ \A j, k \in 1..Len(f) : f[j] = f[k] => j = k
<1> DEFINE kept == {i \in DOMAIN chunk_list : chunk_list[i][1] \notin P}
<1>1. IsFiniteSet(kept)
  <2>1. Len(chunk_list) \in Nat /\ kept \subseteq 1..Len(chunk_list)
    OBVIOUS
  <2>2. IsFiniteSet(1..Len(chunk_list))
    <3> DEFINE m == Len(chunk_list)
    <3>1. 1 \in Int /\ m \in Int
      BY <2>1
    <3> HIDE DEF m, kept
    <3>2. IsFiniteSet(1..m)
      BY <3>1, FS_Interval
    <3> QED BY <3>2 DEF m
  <2> QED BY <2>1, <2>2, FS_Subset
<1>2. Cardinality(kept) \in Nat
  BY <1>1, FS_CardinalityType
<1>3. /\ f \in [1..Cardinality(kept) -> kept]
      /\ {f[k] : k \in DOMAIN f} = kept
      /\ \A j, k \in DOMAIN f : j < k => f[j] < f[k]
  BY DEF KeptAt
<1>4. /\ kept \subseteq 1..Len(chunk_list)
      /\ \A i \in 1..Len(chunk_list) : i \in kept <=> chunk_list[i][1] \notin P
  OBVIOUS
<1> HIDE DEF kept
<1>5. /\ f \in Seq(1..Len(chunk_list))
      /\ DOMAIN f = 1..Len(f) /\ Len(f) = Cardinality(kept)
  BY <1>2, <1>3, <1>4
<1>6. \A j, k \in 1..Len(f) : f[j] = f[k] => j = k
  <2> SUFFICES ASSUME NEW j \in 1..Len(f), NEW k \in 1..Len(f), f[j] = f[k]
               PROVE  j = k
    OBVIOUS
  <2>1. f[j] \in Int /\ f[k] \in Int
    BY <1>5
  <2> QED BY <1>3, <1>5, <2>1
<1>7. \A k \in 1..Len(f) : f[k] \in kept
  BY <1>3, <1>5
<1>8. \A i \in kept : \E k \in 1..Len(f) : f[k] = i
  BY <1>3, <1>5
<1> QED BY <1>4, <1>5, <1>6, <1>7, <1>8

-----------------------------------------------------------------------------
\* The inductive invariant: the run's HandleInv, the bound, and what the files
\* hold while nobody writes them.
StoreInv == HandleInv /\ DiskSound /\ WithinBound

\* The parts of the invariant.
LEMMA InvParts ==
  ASSUME StoreInv
  PROVE  StoreTypeOK /\ IndexExact /\ RowsMatch /\ DiskSound /\ WithinBound
BY DEF StoreInv, HandleInv

\* The records of an open handle repeat no id.
LEMMA OpenUnique ==
  ASSUME StoreInv, stage # "closed"
  PROVE  UniqueIds(chunk_list)
<1>1. \A i \in DOMAIN chunk_list : chunk_index[chunk_list[i][1]] = i
  BY DEF StoreInv, HandleInv, IndexExact
<1> QED BY <1>1 DEF UniqueIds

\* A closed store without files satisfies it.
LEMMA StoreInitInv == StoreInit => StoreInv
<1> SUFFICES ASSUME StoreInit PROVE StoreInv
  OBVIOUS
<1> USE DEF StoreInit
<1>1. StoreTypeOK
  <2>1. vectors \in Seq(Entry) /\ chunk_list \in Seq(Entry)
    BY NoRecords
  <2>2. DOMAIN chunk_index = {}
    OBVIOUS
  <2>3. faults \in 0..MaxFaults
    OBVIOUS
  <2> QED BY <2>1, <2>2, <2>3 DEF StoreTypeOK
<1>2. IndexExact /\ RowsMatch /\ DiskSound /\ WithinBound
  BY DEF IndexExact, RowsMatch, DiskSound, WithinBound
<1> QED BY <1>1, <1>2 DEF StoreInv, HandleInv

\* FileStore::open reads what the files say, or nothing.
LEMMA OpenKeepsInv == StoreInv /\ Open => StoreInv'
<1> SUFFICES ASSUME StoreInv, Open PROVE StoreInv'
  OBVIOUS
<1>1. StoreTypeOK /\ DiskSound /\ WithinBound
  BY InvParts
<1>0. /\ stage = "closed" /\ Openable
      /\ vectors' = IF manifest = 0 THEN <<>> ELSE vectors_bin
      /\ chunk_list' = ChunkLines
      /\ chunk_index' = IndexOf(ChunkLines)
      /\ dirty' = FALSE /\ stage' = "open" /\ tainted' = suspect
      /\ UNCHANGED <<dropping, vectors_bin, chunks_jsonl, manifest, suspect, faults>>
  BY DEF Open, disk
<1>2. /\ ChunkLines \in Seq(Entry) /\ UniqueIds(ChunkLines)
      /\ Len(ChunkLines) = manifest /\ manifest \in 0..MaxPuts
      /\ manifest # 0 => vectors_bin \in Seq(Entry) /\ Len(vectors_bin) = manifest
      /\ chunks_jsonl # Torn
  BY <1>0, <1>1 DEF Openable, VectorsOk, ChunkLines, UniqueIds, StoreTypeOK
<1>3. /\ DOMAIN IndexOf(ChunkLines) = {ChunkLines[i][1] : i \in DOMAIN ChunkLines}
      /\ \A i \in DOMAIN ChunkLines : IndexOf(ChunkLines)[ChunkLines[i][1]] = i
  BY <1>2, IndexOfInverse
<1>4. StoreTypeOK'
  <2>1. \A i \in DOMAIN ChunkLines : ChunkLines[i][1] \in Ids
    BY <1>2 DEF Entry
  <2>2. DOMAIN chunk_index' \subseteq Ids
    BY <1>0, <1>3, <2>1
  <2>3. \A id \in DOMAIN chunk_index' : chunk_index'[id] \in 1..MaxPuts
    BY <1>0, <1>2, <1>3
  <2>4. vectors' \in Seq(Entry) /\ chunk_list' \in Seq(Entry)
    BY <1>0, <1>2
  <2> QED BY <1>0, <1>1, <2>2, <2>3, <2>4 DEF StoreTypeOK
<1>5. IndexExact'
  <2>1. Len(vectors') = Len(chunk_list')
    BY <1>0, <1>2
  <2> QED BY <1>0, <1>3, <2>1 DEF IndexExact
<1>6. RowsMatch'
  <2> SUFFICES ASSUME ~suspect PROVE vectors' = chunk_list'
    BY <1>0 DEF RowsMatch
  <2>1. manifest # Missing
    BY <1>2
  <2>2. manifest # 0 => vectors_bin = chunks_jsonl
    BY <1>1, <2>1 DEF DiskSound
  <2>3. CASE manifest = 0
    BY <1>0, <1>2, <2>3
  <2>4. CASE manifest # 0
    <3>1. chunks_jsonl # Missing
      BY <1>2, <2>2, <2>4
    <3> QED BY <1>0, <2>2, <2>4, <3>1 DEF ChunkLines
  <2> QED BY <2>3, <2>4
<1>7. DiskSound' /\ WithinBound'
  <2>1. manifest # Missing
    BY <1>2
  <2> QED BY <1>0, <1>1, <1>2, <2>1 DEF DiskSound, WithinBound, ChunkLines
<1> QED BY <1>4, <1>5, <1>6, <1>7 DEF StoreInv, HandleInv

\* A new directory gets a manifest before the handle exists, or an error.
LEMMA CreateKeepsInv == StoreInv /\ (Create \/ CreateFails) => StoreInv'
<1> SUFFICES ASSUME StoreInv, Create \/ CreateFails PROVE StoreInv'
  OBVIOUS
<1>1. StoreTypeOK /\ IndexExact /\ RowsMatch /\ DiskSound /\ WithinBound
  BY InvParts
<1>2. CASE Create
  <2> USE <1>2 DEF Create
  <2>1. StoreTypeOK'
    <3>1. vectors' \in Seq(Entry) /\ chunk_list' \in Seq(Entry) /\ DOMAIN chunk_index' = {}
      BY NoRecords
    <3>2. manifest' \in 0..MaxPuts
      OBVIOUS
    <3> QED BY <1>1, <3>1, <3>2 DEF StoreTypeOK
  <2>2. IndexExact' /\ RowsMatch'
    BY <1>1 DEF IndexExact, RowsMatch
  <2>3. DiskSound' /\ WithinBound'
    <3>1. /\ chunks_jsonl \in {Missing, <<>>} /\ ~suspect
          /\ ChunkLines' = <<>>
      BY <1>1 DEF DiskSound, ChunkLines
    <3>2. manifest' = 0 /\ 0 \in Nat /\ <<>> # Torn /\ Len(<<>>) = 0
      BY NoRecords, FileValues
    <3>3. chunk_list' = <<>> /\ UNCHANGED <<chunks_jsonl, suspect>> /\ stage' = "open"
      OBVIOUS
    <3>4. DiskSound'
      BY <3>1, <3>2, <3>3, FileValues DEF DiskSound
    <3>5. WithinBound'
      BY <1>1, <3>2, <3>3 DEF WithinBound
    <3> QED BY <3>4, <3>5
  <2> QED BY <2>1, <2>2, <2>3 DEF StoreInv, HandleInv
<1>3. CASE CreateFails
  <2> USE <1>3 DEF CreateFails, ram
  <2>1. StoreTypeOK'
    <3>1. /\ vectors_bin' \in Seq(Entry) \cup {Missing, Torn}
          /\ chunks_jsonl' \in Seq(Entry) \cup {Missing, Torn}
      BY <1>1, NoRecords DEF StoreTypeOK
    <3>2. manifest' \in 0..MaxPuts \cup {Missing, Torn} /\ faults' \in 0..MaxFaults
      BY <1>1 DEF StoreTypeOK
    <3> QED BY <1>1, <3>1, <3>2 DEF StoreTypeOK
  <2>2. IndexExact' /\ RowsMatch'
    BY <1>1 DEF IndexExact, RowsMatch
  <2>3. DiskSound'
    <3>1. /\ stage = "closed" /\ stage' = "closed" /\ ~suspect
          /\ chunks_jsonl \in {Missing, <<>>}
          /\ chunks_jsonl' \in {Missing, <<>>}
          /\ ChunkLines' = <<>>
      BY <1>1 DEF DiskSound, ChunkLines
    <3>2. 0 \in Nat /\ <<>> # Torn /\ Len(<<>>) = 0
      BY NoRecords, FileValues
    <3>3. suspect' = (manifest' = Torn) /\ manifest' \in {Missing, Torn, 0}
      OBVIOUS
    <3> QED BY <3>1, <3>2, <3>3, FileValues DEF DiskSound
  <2>4. WithinBound'
    BY <1>1 DEF WithinBound
  <2> QED BY <2>1, <2>2, <2>3, <2>4 DEF StoreInv, HandleInv
<1> QED BY <1>2, <1>3

\* put overwrites the row of an id that is there, or adds one.
LEMMA PutKeepsInv ==
  ASSUME StoreInv, NEW id \in Ids, NEW v \in Versions, Put(id, v)
  PROVE  StoreInv'
<1>1. StoreTypeOK /\ IndexExact /\ RowsMatch /\ DiskSound /\ WithinBound
  BY InvParts
<1>2. /\ stage = "open" /\ dirty' = TRUE
      /\ UNCHANGED <<stage, dropping, vectors_bin, chunks_jsonl, manifest,
                     suspect, tainted, faults>>
  BY DEF Put, disk
<1>3. /\ vectors \in Seq(Entry) /\ chunk_list \in Seq(Entry)
      /\ Len(vectors) = Len(chunk_list)
      /\ DOMAIN chunk_index = {chunk_list[i][1] : i \in DOMAIN chunk_list}
      /\ \A i \in DOMAIN chunk_list : chunk_index[chunk_list[i][1]] = i
      /\ ~tainted => vectors = chunk_list
      /\ <<id, v>> \in Entry
  BY <1>1, <1>2 DEF StoreTypeOK, IndexExact, RowsMatch, Entry
<1> HIDE DEF Entry
<1>4. CASE id \in DOMAIN chunk_index
  <2> DEFINE i == chunk_index[id]
  <2>1. PICK j \in DOMAIN chunk_list : chunk_list[j][1] = id
    BY <1>3, <1>4
  <2>2. i \in DOMAIN chunk_list /\ chunk_list[i][1] = id /\ DOMAIN chunk_list = 1..Len(chunk_list)
    BY <1>3, <2>1
  <2>3. /\ vectors' = [vectors EXCEPT ![i] = <<id, v>>]
        /\ chunk_list' = [chunk_list EXCEPT ![i] = <<id, v>>]
        /\ UNCHANGED chunk_index
    BY <1>4 DEF Put
  <2> HIDE DEF i
  <2>4. /\ vectors' \in Seq(Entry) /\ chunk_list' \in Seq(Entry)
        /\ Len(vectors') = Len(vectors) /\ Len(chunk_list') = Len(chunk_list)
        /\ ~tainted => vectors' = chunk_list'
    <3>1. DOMAIN vectors = DOMAIN chunk_list
      BY <1>3
    <3>2. /\ vectors' \in Seq(Entry) /\ Len(vectors') = Len(vectors)
      BY <1>3, <2>2, <2>3, <3>1
    <3>3. /\ chunk_list' \in Seq(Entry) /\ Len(chunk_list') = Len(chunk_list)
      BY <1>3, <2>2, <2>3
    <3> QED BY <1>3, <2>3, <3>2, <3>3
  <2>5. \A k \in DOMAIN chunk_list : chunk_list'[k][1] = chunk_list[k][1]
    BY <1>3, <2>2, <2>3
  <2>6. DOMAIN chunk_list' = DOMAIN chunk_list
    BY <2>3
  <2>7. StoreTypeOK'
    BY <1>1, <1>2, <2>3, <2>4 DEF StoreTypeOK
  <2>8. IndexExact'
    BY <1>3, <2>3, <2>4, <2>5, <2>6 DEF IndexExact
  <2>9. RowsMatch' /\ WithinBound' /\ DiskSound'
    BY <1>1, <1>2, <2>4 DEF RowsMatch, WithinBound, DiskSound, ChunkLines
  <2> QED BY <2>7, <2>8, <2>9 DEF StoreInv, HandleInv
<1>5. CASE id \notin DOMAIN chunk_index
  <2> DEFINE n == Len(chunk_list)
  <2>1. /\ n < MaxPuts
        /\ vectors' = Append(vectors, <<id, v>>)
        /\ chunk_list' = Append(chunk_list, <<id, v>>)
        /\ chunk_index' = [k \in DOMAIN chunk_index \cup {id} |->
                              IF k = id THEN n + 1 ELSE chunk_index[k]]
    BY <1>5 DEF Put
  <2>2. n \in Nat /\ DOMAIN chunk_list = 1..n
    BY <1>3
  <2> HIDE DEF n
  <2>3. /\ vectors' \in Seq(Entry) /\ chunk_list' \in Seq(Entry)
        /\ Len(chunk_list') = n + 1 /\ DOMAIN chunk_list' = 1..n + 1
        /\ Len(vectors') = Len(chunk_list')
        /\ ~tainted => vectors' = chunk_list'
        /\ chunk_list'[n + 1] = <<id, v>>
        /\ \A k \in 1..n : chunk_list'[k] = chunk_list[k]
    BY <1>3, <2>1 DEF n
  <2>4. chunk_list'[n + 1][1] = id
    BY <2>3
  <2>5. \A k \in 1..n : chunk_list[k][1] # id
    BY <1>3, <1>5, <2>2
  <2>6. DOMAIN chunk_index' = {chunk_list'[k][1] : k \in DOMAIN chunk_list'}
    <3>1. ASSUME NEW x \in DOMAIN chunk_index'
          PROVE  \E k \in 1..n + 1 : chunk_list'[k][1] = x
      <4>1. CASE x = id
        BY <2>2, <2>4, <4>1
      <4>2. CASE x \in DOMAIN chunk_index
        <5>1. PICK k \in 1..n : chunk_list[k][1] = x
          BY <1>3, <2>2, <4>2
        <5> QED BY <2>2, <2>3, <5>1
      <4> QED BY <2>1, <4>1, <4>2
    <3>2. ASSUME NEW k \in 1..n + 1
          PROVE  chunk_list'[k][1] \in DOMAIN chunk_index'
      <4>1. CASE k = n + 1
        BY <2>1, <2>4, <4>1
      <4>2. CASE k \in 1..n
        BY <1>3, <2>1, <2>2, <2>3, <4>2
      <4> QED BY <2>2, <4>1, <4>2
    <3> QED BY <2>3, <3>1, <3>2
  <2>7. ASSUME NEW k \in 1..n + 1 PROVE chunk_index'[chunk_list'[k][1]] = k
    <3>1. CASE k = n + 1
      BY <2>1, <2>4, <3>1
    <3>2. CASE k \in 1..n
      <4>1. chunk_list'[k][1] = chunk_list[k][1] /\ chunk_list[k][1] \in DOMAIN chunk_index
        BY <1>3, <2>2, <2>3, <3>2
      <4>2. chunk_index[chunk_list[k][1]] = k /\ chunk_list[k][1] # id
        BY <1>3, <2>2, <2>5, <3>2
      <4> QED BY <2>1, <4>1, <4>2
    <3> QED BY <2>2, <3>1, <3>2
  <2>8. StoreTypeOK'
    <3>1. DOMAIN chunk_index' \subseteq Ids
      BY <1>1, <2>1 DEF StoreTypeOK
    <3>2. \A x \in DOMAIN chunk_index' : chunk_index'[x] \in 1..MaxPuts
      BY <1>1, <2>1, <2>2 DEF StoreTypeOK
    <3> QED BY <1>1, <1>2, <2>3, <3>1, <3>2 DEF StoreTypeOK
  <2>9. IndexExact'
    BY <2>3, <2>6, <2>7 DEF IndexExact
  <2>10. WithinBound'
    BY <1>1, <1>2, <2>1, <2>2, <2>3 DEF WithinBound
  <2>11. RowsMatch' /\ DiskSound'
    BY <1>1, <1>2, <2>3 DEF RowsMatch, DiskSound, ChunkLines
  <2> QED BY <2>8, <2>9, <2>10, <2>11 DEF StoreInv, HandleInv
<1> QED BY <1>4, <1>5

\* remove_by_path_prefix keeps the other rows and rebuilds the index.
LEMMA RemoveKeepsInv ==
  ASSUME StoreInv, NEW P, RemoveByPathPrefix(P)
  PROVE  StoreInv'
<1>1. StoreTypeOK /\ IndexExact /\ RowsMatch /\ DiskSound /\ WithinBound
  BY InvParts
<1>2. PICK f \in KeptAt(P) :
      /\ stage = "open"
      /\ Len(f) < Len(chunk_list)
      /\ vectors' = [k \in DOMAIN f |-> vectors[f[k]]]
      /\ chunk_list' = [k \in DOMAIN f |-> chunk_list[f[k]]]
      /\ chunk_index' = IndexOf(chunk_list')
      /\ dirty' = TRUE
      /\ UNCHANGED <<stage, dropping, vectors_bin, chunks_jsonl, manifest,
                     suspect, tainted, faults>>
  BY DEF RemoveByPathPrefix, disk
<1>3. /\ vectors \in Seq(Entry) /\ chunk_list \in Seq(Entry)
      /\ Len(vectors) = Len(chunk_list)
      /\ UniqueIds(chunk_list)
      /\ ~tainted => vectors = chunk_list
  BY <1>1, <1>2, OpenUnique DEF StoreTypeOK, IndexExact, RowsMatch
<1>4. /\ f \in Seq(1..Len(chunk_list))
      /\ \A j, k \in 1..Len(f) : f[j] = f[k] => j = k
  BY <1>3, KeptPositions
<1> DEFINE n == Len(f)
<1>5. n \in Nat /\ DOMAIN f = 1..n /\ (\A k \in 1..n : f[k] \in 1..Len(chunk_list))
  BY <1>4
<1> HIDE DEF n
<1>6. /\ \A k \in 1..n : chunk_list[f[k]] \in Entry /\ vectors[f[k]] \in Entry
  BY <1>3, <1>5
<1>7. /\ vectors' \in Seq(Entry) /\ chunk_list' \in Seq(Entry)
      /\ Len(vectors') = n /\ Len(chunk_list') = n /\ DOMAIN chunk_list' = 1..n
      /\ \A k \in 1..n : chunk_list'[k] = chunk_list[f[k]]
      /\ ~tainted => vectors' = chunk_list'
  BY <1>2, <1>3, <1>5, <1>6
<1>8. UniqueIds(chunk_list')
  <2> SUFFICES ASSUME NEW j \in 1..n, NEW k \in 1..n,
                      chunk_list'[j][1] = chunk_list'[k][1]
               PROVE  j = k
    BY <1>7 DEF UniqueIds
  <2>1. f[j] \in DOMAIN chunk_list /\ f[k] \in DOMAIN chunk_list
    BY <1>3, <1>5
  <2>2. f[j] = f[k]
    BY <1>3, <1>7, <2>1 DEF UniqueIds
  <2> QED BY <1>4, <2>2 DEF n
<1>9. /\ DOMAIN chunk_index' = {chunk_list'[i][1] : i \in DOMAIN chunk_list'}
      /\ \A i \in DOMAIN chunk_list' : chunk_index'[chunk_list'[i][1]] = i
  BY <1>2, <1>7, <1>8, IndexOfInverse
<1>10. n < Len(chunk_list) /\ Len(chunk_list) <= MaxPuts /\ Len(chunk_list) \in Nat
  BY <1>1, <1>2, <1>3 DEF WithinBound, n
<1>11. StoreTypeOK'
  <2>1. \A i \in DOMAIN chunk_list' : chunk_list'[i][1] \in Ids
    BY <1>7 DEF Entry
  <2>2. DOMAIN chunk_index' \subseteq Ids
    BY <1>9, <2>1
  <2>3. \A id \in DOMAIN chunk_index' : chunk_index'[id] \in 1..MaxPuts
    BY <1>5, <1>7, <1>9, <1>10
  <2> QED BY <1>1, <1>2, <1>7, <2>2, <2>3 DEF StoreTypeOK
<1>12. IndexExact' /\ RowsMatch'
  BY <1>2, <1>7, <1>9 DEF IndexExact, RowsMatch
<1>13. DiskSound' /\ WithinBound'
  BY <1>1, <1>2, <1>7, <1>10 DEF DiskSound, WithinBound, ChunkLines
<1> QED BY <1>11, <1>12, <1>13 DEF StoreInv, HandleInv

\* A step of the handle that leaves what it holds in RAM alone.
LEMMA RamUntouched ==
  ASSUME StoreInv, UNCHANGED <<vectors, chunk_list, chunk_index, tainted>>,
         stage' # "closed" => stage # "closed"
  PROVE  IndexExact' /\ RowsMatch'
BY DEF StoreInv, HandleInv, IndexExact, RowsMatch

\* flush writes one file at a time.
LEMMA FlushKeepsInv ==
  ASSUME StoreInv,
         \/ \E drop \in BOOLEAN : FlushVectors(drop)
         \/ FlushChunks
         \/ FlushManifest
  PROVE  StoreInv'
<1>1. StoreTypeOK /\ IndexExact /\ RowsMatch /\ DiskSound /\ WithinBound
  BY InvParts
<1>2. manifest = Missing => stage = "closed"
  BY <1>1 DEF DiskSound
<1>3. ASSUME NEW drop \in BOOLEAN, FlushVectors(drop) PROVE StoreInv'
  <2> USE <1>3 DEF FlushVectors, ram
  <2>1. IndexExact' /\ RowsMatch'
    BY RamUntouched
  <2>2. StoreTypeOK'
    BY <1>1 DEF StoreTypeOK
  <2>3. DiskSound' /\ WithinBound'
    BY <1>1, <1>2 DEF DiskSound, WithinBound
  <2> QED BY <2>1, <2>2, <2>3 DEF StoreInv, HandleInv
<1>4. CASE FlushChunks
  <2> USE <1>4 DEF FlushChunks, ram
  <2>1. IndexExact' /\ RowsMatch'
    BY RamUntouched
  <2>2. StoreTypeOK'
    BY <1>1 DEF StoreTypeOK
  <2>3. DiskSound' /\ WithinBound'
    BY <1>1, <1>2 DEF DiskSound, WithinBound
  <2> QED BY <2>1, <2>2, <2>3 DEF StoreInv, HandleInv
<1>5. CASE FlushManifest
  <2> USE <1>5 DEF FlushManifest, ram, AfterFlush
  <2>1. IndexExact' /\ RowsMatch'
    BY RamUntouched
  <2>2. Len(chunk_list) \in 0..MaxPuts /\ chunk_list \in Seq(Entry)
    BY <1>1 DEF StoreTypeOK, WithinBound
  <2>3. StoreTypeOK'
    BY <1>1, <2>2 DEF StoreTypeOK
  <2>4. /\ vectors_bin = vectors /\ chunks_jsonl = chunk_list
        /\ ~tainted => vectors = chunk_list
    BY <1>1 DEF DiskSound, RowsMatch
  <2>5. /\ manifest' # Missing /\ manifest' # Torn
        /\ chunks_jsonl' # Missing /\ chunks_jsonl' # Torn
    BY <2>2, <2>4, FileValues
  <2>6. ChunkLines' = chunk_list
    BY <2>4, <2>5 DEF ChunkLines
  <2>7. DiskSound'
    BY <2>4, <2>5, <2>6 DEF DiskSound
  <2>8. WithinBound'
    BY <1>1 DEF WithinBound
  <2> QED BY <2>1, <2>3, <2>7, <2>8 DEF StoreInv, HandleInv
<1> QED BY <1>3, <1>4, <1>5

\* What is left of a file whose write is cut.
LEMMA CutFile ==
  ASSUME NEW old, NEW s \in Seq(Entry), NEW new \in CutOf(old, s)
  PROVE  \/ new = old \/ new = Torn
         \/ new \in Seq(Entry) /\ Len(new) < Len(s)
<1>1. CASE new \in {SubSeq(s, 1, n) : n \in 0..Len(s) - 1}
  <2>1. PICK n \in 0..Len(s) - 1 : new = SubSeq(s, 1, n)
    BY <1>1
  <2>2. SubSeq(s, 1, n) \in Seq(Entry) /\ Len(SubSeq(s, 1, n)) = n
    OBVIOUS
  <2> QED BY <2>1, <2>2
<1> QED BY <1>1 DEF CutOf

\* What a write that is cut off may leave on the disk.
LEMMA CutWriteEffect ==
  ASSUME StoreInv, stage # "closed", CutWrite
  PROVE  /\ vectors_bin' \in Seq(Entry) \cup {Missing, Torn}
         /\ chunks_jsonl' \in Seq(Entry) \cup {Missing, Torn}
         /\ manifest' \in 0..MaxPuts \cup {Missing, Torn}
         /\ manifest' # Missing
         /\ chunks_jsonl' \notin {Missing, Torn} => Len(chunks_jsonl') <= MaxPuts
<1>1. /\ vectors \in Seq(Entry) /\ chunk_list \in Seq(Entry)
      /\ vectors_bin \in Seq(Entry) \cup {Missing, Torn}
      /\ chunks_jsonl \in Seq(Entry) \cup {Missing, Torn}
      /\ manifest \in 0..MaxPuts \cup {Missing, Torn}
      /\ stage \in {"closed", "open", "chunks", "manifest"}
      /\ Len(chunk_list) <= MaxPuts
      /\ chunks_jsonl \notin {Missing, Torn} => Len(chunks_jsonl) <= MaxPuts
      /\ manifest # Missing
  BY InvParts DEF StoreTypeOK, WithinBound, DiskSound
<1>2. CASE stage = "open"
  <2>1. vectors_bin' \in CutOf(vectors_bin, vectors) /\ UNCHANGED <<chunks_jsonl, manifest>>
    BY <1>2 DEF CutWrite
  <2> QED BY <1>1, <2>1, CutFile
<1>3. CASE stage = "chunks"
  <2>1. chunks_jsonl' \in CutOf(chunks_jsonl, chunk_list) /\ UNCHANGED <<vectors_bin, manifest>>
    BY <1>3 DEF CutWrite
  <2>2. \/ chunks_jsonl' = chunks_jsonl \/ chunks_jsonl' = Torn
        \/ chunks_jsonl' \in Seq(Entry) /\ Len(chunks_jsonl') < Len(chunk_list)
    BY <1>1, <2>1, CutFile
  <2> QED BY <1>1, <2>1, <2>2
<1>4. CASE stage = "manifest"
  <2>1. manifest' \in {manifest, Torn} /\ UNCHANGED <<vectors_bin, chunks_jsonl>>
    BY <1>4 DEF CutWrite
  <2> QED BY <1>1, <2>1
<1> QED BY <1>1, <1>2, <1>3, <1>4

\* A crash and a flush that fails.
LEMMA FaultKeepsInv ==
  ASSUME StoreInv, Crash \/ \E drop \in BOOLEAN : FlushFails(drop)
  PROVE  StoreInv'
<1>1. StoreTypeOK /\ IndexExact /\ RowsMatch /\ DiskSound /\ WithinBound
  BY InvParts
<1>2. /\ stage # "closed" /\ faults < MaxFaults /\ faults' = faults + 1
      /\ UNCHANGED <<vectors, chunk_list, chunk_index, dirty, dropping, tainted>>
      /\ stage' \in {"closed", "open"}
      /\ \/ stage = "open" /\ UNCHANGED <<vectors_bin, chunks_jsonl, manifest, suspect>>
         \/ CutWrite /\ suspect' = TRUE
  BY DEF Crash, FlushFails, ram, disk
<1>3. manifest # Missing
  BY <1>1, <1>2 DEF DiskSound
<1>4. IndexExact' /\ RowsMatch'
  BY <1>2, RamUntouched
<1>5. CASE stage = "open" /\ UNCHANGED <<vectors_bin, chunks_jsonl, manifest, suspect>>
  <2>1. StoreTypeOK'
    BY <1>1, <1>2, <1>5 DEF StoreTypeOK
  <2>2. DiskSound' /\ WithinBound'
    BY <1>1, <1>2, <1>3, <1>5 DEF DiskSound, WithinBound, ChunkLines
  <2> QED BY <1>4, <2>1, <2>2 DEF StoreInv, HandleInv
<1>6. CASE CutWrite /\ suspect' = TRUE
  <2>1. /\ vectors_bin' \in Seq(Entry) \cup {Missing, Torn}
        /\ chunks_jsonl' \in Seq(Entry) \cup {Missing, Torn}
        /\ manifest' \in 0..MaxPuts \cup {Missing, Torn}
        /\ manifest' # Missing
        /\ chunks_jsonl' \notin {Missing, Torn} => Len(chunks_jsonl') <= MaxPuts
    BY <1>2, <1>6, CutWriteEffect
  <2>2. StoreTypeOK'
    BY <1>1, <1>2, <1>6, <2>1 DEF StoreTypeOK
  <2>3. DiskSound' /\ WithinBound'
    BY <1>1, <1>2, <1>6, <2>1 DEF DiskSound, WithinBound
  <2> QED BY <1>4, <2>2, <2>3 DEF StoreInv, HandleInv
<1> QED BY <1>2, <1>5, <1>6

\* Every step keeps the invariant.
LEMMA StoreStepInv == StoreInv /\ [StoreNext]_storeVars => StoreInv'
<1> SUFFICES ASSUME StoreInv, [StoreNext]_storeVars PROVE StoreInv'
  OBVIOUS
<1>1. StoreTypeOK /\ IndexExact /\ RowsMatch /\ DiskSound /\ WithinBound
  BY InvParts
<1>2. CASE Open
  BY <1>2, OpenKeepsInv
<1>3. CASE Create \/ CreateFails
  BY <1>3, CreateKeepsInv
<1>4. CASE \E id \in Ids, v \in Versions : Put(id, v)
  BY <1>4, PutKeepsInv
<1>5. CASE \E P \in Prefixes : RemoveByPathPrefix(P)
  BY <1>5, RemoveKeepsInv
<1>6. CASE DiscardPendingChanges \/ DropClean
  <2> USE <1>6 DEF DiscardPendingChanges, DropClean, ram, disk
  <2>1. IndexExact' /\ RowsMatch'
    BY RamUntouched
  <2>2. StoreTypeOK'
    BY <1>1 DEF StoreTypeOK
  <2>3. DiskSound' /\ WithinBound'
    BY <1>1 DEF DiskSound, WithinBound, ChunkLines
  <2> QED BY <2>1, <2>2, <2>3 DEF StoreInv, HandleInv
<1>7. CASE \/ \E drop \in BOOLEAN : FlushVectors(drop)
           \/ FlushChunks \/ FlushManifest
  BY <1>7, FlushKeepsInv
<1>8. CASE Crash \/ \E drop \in BOOLEAN : FlushFails(drop)
  BY <1>8, FaultKeepsInv
<1>9. CASE UNCHANGED storeVars
  BY <1>1, <1>9 DEF storeVars, ram, disk, StoreInv, HandleInv, StoreTypeOK,
     IndexExact, RowsMatch, DiskSound, WithinBound, ChunkLines
<1> QED BY <1>2, <1>3, <1>4, <1>5, <1>6, <1>7, <1>8, <1>9 DEF StoreNext

\* The invariant holds throughout.
LEMMA StoreInvariant == StoreSpec => []StoreInv
<1>1. StoreInit => StoreInv
  BY StoreInitInv
<1>2. StoreInv /\ [StoreNext]_storeVars => StoreInv'
  BY StoreStepInv
<1> QED BY <1>1, <1>2, PTL DEF StoreSpec

\* Whatever crashes and failed writes left behind, the lookup of an open handle
\* is the exact inverse of its records, with one row per record; and when the
\* files were not half-written, row i is the vector of record i.
THEOREM HandleInvariant == StoreSpec => []HandleInv
<1>1. StoreInv => HandleInv
  BY DEF StoreInv
<1> QED BY <1>1, StoreInvariant, PTL

-----------------------------------------------------------------------------
(***************************************************************************)
(* FileStore implements IndexStore: its initial states map to the empty    *)
(* store, and each of its steps to a step of the same name or a stutter.   *)
(***************************************************************************)
LEMMA InitImplements == StoreInit => Abstract!Init
<1> SUFFICES ASSUME StoreInit PROVE Abstract!Init
  OBVIOUS
<1> USE DEF StoreInit
<1>1. Content = Closed
  BY DEF Content
<1>2. ChunkLines = <<>>
  BY DEF ChunkLines
<1>3. Durable = MapOf(<<>>)
  BY <1>2 DEF Durable
<1>4. MapOf(<<>>) = [id \in {} |-> 0]
  BY DEF MapOf
<1> QED BY <1>1, <1>3, <1>4 DEF Abstract!Init

\* What the abstract store shows of a handle and of the directory.
LEMMA Shown ==
  ASSUME StoreInv
  PROVE  /\ stage = "closed" => Content = Closed
         /\ stage # "closed" => Content # Closed
         /\ stage # "closed" /\ tainted => Content = Unreliable
         /\ stage # "closed" /\ ~tainted =>
               /\ Content = MapOf(chunk_list)
               /\ Content # Unreliable
               /\ chunk_list \in Seq(Entry) /\ UniqueIds(chunk_list)
         /\ suspect => Durable = Unreliable
         /\ ~suspect => Durable = MapOf(ChunkLines)
<1>1. stage # "closed" => /\ chunk_list \in Seq(Entry) /\ UniqueIds(chunk_list)
                          /\ MapOf(chunk_list) # Closed
                          /\ MapOf(chunk_list) # Unreliable
  BY InvParts, OpenUnique, MapNotSpecial DEF StoreTypeOK
<1> QED BY <1>1 DEF Content, Durable

\* Steps that touch neither the records nor the files' state as shown.
LEMMA DurableUntouched ==
  ASSUME UNCHANGED <<suspect, chunks_jsonl>>
  PROVE  Durable' = Durable
BY DEF Durable, ChunkLines

\* Opening the directory opens the abstract store.
LEMMA OpenImplements == StoreInv /\ Open => Abstract!Open
<1> SUFFICES ASSUME StoreInv, Open PROVE Abstract!Open
  OBVIOUS
<1>0. /\ stage = "closed" /\ chunk_list' = ChunkLines
      /\ dirty' = FALSE /\ stage' = "open" /\ tainted' = suspect
      /\ UNCHANGED <<chunks_jsonl, suspect, faults>>
  BY DEF Open, disk
<1>1. Content = Closed
  BY <1>0, Shown
<1>2. Content' = Durable
  BY <1>0 DEF Content, Durable
<1>3. Durable' = Durable
  BY <1>0, DurableUntouched
<1> QED BY <1>0, <1>1, <1>2, <1>3 DEF Abstract!Open

\* So does a directory that is new.
LEMMA CreateImplements == StoreInv /\ Create => Abstract!Open
<1> SUFFICES ASSUME StoreInv, Create PROVE Abstract!Open
  OBVIOUS
<1>0. /\ stage = "closed" /\ manifest = Missing
      /\ chunk_list' = <<>> /\ dirty' = TRUE /\ stage' = "open" /\ tainted' = FALSE
      /\ UNCHANGED <<chunks_jsonl, suspect, faults>>
  BY DEF Create
<1>1. Content = Closed
  BY <1>0, Shown
<1>2. ~suspect /\ ChunkLines = <<>>
  BY <1>0, InvParts DEF DiskSound, ChunkLines
<1>3. Content' = MapOf(<<>>)
  BY <1>0 DEF Content
<1>4. Durable = MapOf(<<>>)
  BY <1>2, Shown
<1>5. Durable' = Durable
  BY <1>0, DurableUntouched
<1> QED BY <1>0, <1>1, <1>3, <1>4, <1>5 DEF Abstract!Open

\* A directory that cannot be set up is a fault of the abstract store.
LEMMA CreateFailsImplements == StoreInv /\ CreateFails => Abstract!Fault
<1> SUFFICES ASSUME StoreInv, CreateFails PROVE Abstract!Fault
  OBVIOUS
<1>0. /\ stage = "closed" /\ stage' = "closed" /\ manifest = Missing
      /\ faults < MaxFaults /\ faults' = faults + 1
      /\ dirty' = dirty
      /\ chunks_jsonl' \in {chunks_jsonl, <<>>}
  BY DEF CreateFails, ram
<1>1. dirty \in BOOLEAN
  BY InvParts DEF StoreTypeOK
<1>2. Content = Closed /\ Content' = Closed
  BY <1>0 DEF Content
<1>3. ~suspect /\ ChunkLines = <<>> /\ ChunkLines' = <<>>
  BY <1>0, InvParts DEF DiskSound, ChunkLines
<1>4. Durable' \in {Durable, Unreliable}
  BY <1>3 DEF Durable
<1> QED BY <1>0, <1>1, <1>2, <1>4 DEF Abstract!Fault

\* A put is the abstract put.
LEMMA PutImplements ==
  ASSUME StoreInv, StoreInv', NEW id \in Ids, NEW v \in Versions, Put(id, v)
  PROVE  Abstract!Put
<1>0. /\ stage = "open" /\ stage' = "open" /\ dirty' = TRUE
      /\ UNCHANGED <<chunks_jsonl, suspect, tainted, faults>>
  BY DEF Put, disk
<1>1. Content # Closed /\ Durable' = Durable
  BY <1>0, Shown, DurableUntouched
<1>2. CASE tainted
  <2>1. Content = Unreliable /\ Content' = Unreliable
    BY <1>0, <1>2 DEF Content
  <2> QED BY <1>0, <1>1, <2>1 DEF Abstract!Put
<1>3. CASE ~tainted
  <2>1. /\ Content = MapOf(chunk_list) /\ Content # Unreliable
        /\ chunk_list \in Seq(Entry) /\ UniqueIds(chunk_list)
    BY <1>0, <1>3, Shown
  <2>2. /\ stage' # "closed" /\ ~tainted'
    BY <1>0, <1>3
  <2>3. /\ Content' = MapOf(chunk_list')
        /\ chunk_list' \in Seq(Entry) /\ UniqueIds(chunk_list')
    <3>1. chunk_list' \in Seq(Entry)
      BY InvParts DEF StoreTypeOK, StoreInv, HandleInv
    <3>2. \A i \in DOMAIN chunk_list' : chunk_index'[chunk_list'[i][1]] = i
      BY <2>2 DEF StoreInv, HandleInv, IndexExact
    <3> QED BY <2>2, <3>1, <3>2 DEF UniqueIds, Content
  <2> DEFINE m  == MapOf(chunk_list)
             m1 == MapOf(chunk_list')
  <2>4. /\ DOMAIN m = {chunk_list[i][1] : i \in DOMAIN chunk_list}
        /\ \A i \in DOMAIN chunk_list : m[chunk_list[i][1]] = chunk_list[i][2]
        /\ m = [x \in DOMAIN m |-> m[x]]
    BY <2>1, MapOfRecords
  <2>5. /\ DOMAIN m1 = {chunk_list'[i][1] : i \in DOMAIN chunk_list'}
        /\ \A i \in DOMAIN chunk_list' : m1[chunk_list'[i][1]] = chunk_list'[i][2]
        /\ m1 = [x \in DOMAIN m1 |-> m1[x]]
    BY <2>3, MapOfRecords
  <2> HIDE DEF m, m1
  \* The record of id is the new one, the others are the old ones.
  <2>6. /\ \E k \in DOMAIN chunk_list' : chunk_list'[k] = <<id, v>>
        /\ \A i \in DOMAIN chunk_list : chunk_list[i][1] # id =>
              i \in DOMAIN chunk_list' /\ chunk_list'[i] = chunk_list[i]
        /\ \A i \in DOMAIN chunk_list' : chunk_list'[i] # <<id, v>> =>
              i \in DOMAIN chunk_list /\ chunk_list'[i] = chunk_list[i]
    <3>1. CASE id \in DOMAIN chunk_index
      <4> DEFINE k == chunk_index[id]
      <4>1. /\ DOMAIN chunk_index = {chunk_list[i][1] : i \in DOMAIN chunk_list}
            /\ \A i \in DOMAIN chunk_list : chunk_index[chunk_list[i][1]] = i
        BY <1>0 DEF StoreInv, HandleInv, IndexExact
      <4>2. k \in DOMAIN chunk_list /\ chunk_list[k][1] = id
        BY <3>1, <4>1
      <4>3. chunk_list' = [chunk_list EXCEPT ![k] = <<id, v>>]
        BY <3>1 DEF Put
      <4> HIDE DEF k
      <4> QED BY <2>1, <4>2, <4>3
    <3>2. CASE id \notin DOMAIN chunk_index
      <4>1. chunk_list' = Append(chunk_list, <<id, v>>) /\ <<id, v>> \in Entry
        BY <3>2 DEF Put, Entry
      <4>2. /\ Len(chunk_list) \in Nat
            /\ DOMAIN chunk_list = 1..Len(chunk_list)
            /\ DOMAIN chunk_list' = 1..Len(chunk_list) + 1
            /\ chunk_list'[Len(chunk_list) + 1] = <<id, v>>
            /\ \A i \in 1..Len(chunk_list) : chunk_list'[i] = chunk_list[i]
        BY <2>1, <4>1
      <4> QED BY <4>2
    <3> QED BY <3>1, <3>2
  <2>7. PICK k \in DOMAIN chunk_list' : chunk_list'[k] = <<id, v>>
    BY <2>6
  <2>8. <<id, v>>[1] = id /\ <<id, v>>[2] = v
    OBVIOUS
  <2>9. id \in DOMAIN m1 /\ m1[id] = v
    BY <2>5, <2>7, <2>8
  <2>10. ASSUME NEW x \in DOMAIN m, x # id
         PROVE  x \in DOMAIN m1 /\ m1[x] = m[x]
    <3>1. PICK i \in DOMAIN chunk_list : chunk_list[i][1] = x
      BY <2>4
    <3>2. i \in DOMAIN chunk_list' /\ chunk_list'[i] = chunk_list[i]
      BY <2>6, <2>10, <3>1
    <3> QED BY <2>4, <2>5, <3>1, <3>2
  <2>11. ASSUME NEW x \in DOMAIN m1, x # id PROVE x \in DOMAIN m
    <3>1. PICK i \in DOMAIN chunk_list' : chunk_list'[i][1] = x
      BY <2>5
    <3>2. i \in DOMAIN chunk_list /\ chunk_list'[i] = chunk_list[i]
      BY <2>6, <2>8, <2>11, <3>1
    <3> QED BY <2>4, <3>1, <3>2
  <2>12. m1 = [x \in DOMAIN m \cup {id} |-> IF x = id THEN v ELSE m[x]]
    <3>1. DOMAIN m1 = DOMAIN m \cup {id}
      BY <2>9, <2>10, <2>11
    <3>2. \A x \in DOMAIN m1 : m1[x] = IF x = id THEN v ELSE m[x]
      BY <2>9, <2>10, <2>11
    <3> QED BY <2>5, <3>1, <3>2
  <2>13. Content' = [x \in DOMAIN Content \cup {id} |-> IF x = id THEN v ELSE Content[x]]
    BY <2>1, <2>3, <2>12 DEF m, m1
  <2> QED BY <1>0, <1>1, <2>1, <2>13 DEF Abstract!Put
<1> QED BY <1>2, <1>3

\* Removing a prefix removes those ids.
LEMMA RemoveImplements ==
  ASSUME StoreInv, StoreInv', NEW P \in Prefixes, RemoveByPathPrefix(P)
  PROVE  Abstract!Remove
<1>1. PICK f \in KeptAt(P) :
      /\ stage = "open" /\ stage' = "open" /\ dirty' = TRUE
      /\ chunk_list' = [k \in DOMAIN f |-> chunk_list[f[k]]]
      /\ UNCHANGED <<chunks_jsonl, suspect, tainted, faults>>
  BY DEF RemoveByPathPrefix, disk
<1>2. Content # Closed /\ Durable' = Durable
  BY <1>1, Shown, DurableUntouched
<1>3. CASE tainted
  <2>1. Content = Unreliable /\ Content' = Unreliable
    BY <1>1, <1>3 DEF Content
  <2> QED BY <1>1, <1>2, <2>1 DEF Abstract!Remove
<1>4. CASE ~tainted
  <2>1. /\ Content = MapOf(chunk_list) /\ Content # Unreliable
        /\ chunk_list \in Seq(Entry) /\ UniqueIds(chunk_list)
    BY <1>1, <1>4, Shown
  <2>2. /\ stage' # "closed" /\ ~tainted'
    BY <1>1, <1>4
  <2>3. /\ Content' = MapOf(chunk_list')
        /\ chunk_list' \in Seq(Entry) /\ UniqueIds(chunk_list')
    <3>1. chunk_list' \in Seq(Entry)
      BY DEF StoreTypeOK, StoreInv, HandleInv
    <3>2. \A i \in DOMAIN chunk_list' : chunk_index'[chunk_list'[i][1]] = i
      BY <2>2 DEF StoreInv, HandleInv, IndexExact
    <3> QED BY <2>2, <3>1, <3>2 DEF UniqueIds, Content
  <2>4. /\ f \in Seq(1..Len(chunk_list))
        /\ \A k \in 1..Len(f) : chunk_list[f[k]][1] \notin P
        /\ \A i \in 1..Len(chunk_list) :
               chunk_list[i][1] \notin P => \E k \in 1..Len(f) : f[k] = i
    BY <2>1, KeptPositions
  <2>5. /\ DOMAIN chunk_list' = 1..Len(f)
        /\ DOMAIN chunk_list = 1..Len(chunk_list)
        /\ \A k \in 1..Len(f) : /\ f[k] \in 1..Len(chunk_list)
                                /\ chunk_list'[k] = chunk_list[f[k]]
    BY <1>1, <2>1, <2>4
  <2> DEFINE m  == MapOf(chunk_list)
             m1 == MapOf(chunk_list')
  <2>6. /\ DOMAIN m = {chunk_list[i][1] : i \in DOMAIN chunk_list}
        /\ \A i \in DOMAIN chunk_list : m[chunk_list[i][1]] = chunk_list[i][2]
    BY <2>1, MapOfRecords
  <2>7. /\ DOMAIN m1 = {chunk_list'[i][1] : i \in DOMAIN chunk_list'}
        /\ \A i \in DOMAIN chunk_list' : m1[chunk_list'[i][1]] = chunk_list'[i][2]
        /\ m1 = [x \in DOMAIN m1 |-> m1[x]]
    BY <2>3, MapOfRecords
  <2> HIDE DEF m, m1
  <2>8. ASSUME NEW x \in DOMAIN m1
        PROVE  x \in DOMAIN m /\ x \notin P /\ m1[x] = m[x]
    <3>1. PICK k \in 1..Len(f) : chunk_list'[k][1] = x
      BY <2>5, <2>7
    <3>2. chunk_list[f[k]][1] = x /\ f[k] \in DOMAIN chunk_list
      BY <2>5, <3>1
    <3>3. x \notin P
      BY <2>4, <3>2
    <3>4. x \in DOMAIN m /\ m[x] = chunk_list[f[k]][2]
      BY <2>6, <3>2
    <3>5. m1[x] = chunk_list'[k][2]
      BY <2>5, <2>7, <3>1
    <3>6. chunk_list'[k] = chunk_list[f[k]]
      BY <2>5
    <3> QED BY <3>3, <3>4, <3>5, <3>6
  <2>9. ASSUME NEW x \in DOMAIN m, x \notin P PROVE x \in DOMAIN m1
    <3>1. PICK i \in 1..Len(chunk_list) : chunk_list[i][1] = x
      BY <2>5, <2>6
    <3>2. PICK k \in 1..Len(f) : f[k] = i
      BY <2>4, <2>9, <3>1
    <3> QED BY <2>5, <2>7, <3>1, <3>2
  <2>10. m1 = [x \in DOMAIN m \ P |-> m[x]]
    <3>1. DOMAIN m1 = DOMAIN m \ P
      BY <2>8, <2>9
    <3> QED BY <2>7, <2>8, <3>1
  <2>11. Content' = [x \in DOMAIN Content \ P |-> Content[x]]
    BY <2>1, <2>3, <2>10 DEF m, m1
  <2>12. P \in SUBSET Ids
    OBVIOUS
  <2> QED BY <1>1, <1>2, <2>1, <2>11, <2>12 DEF Abstract!Remove
<1> QED BY <1>3, <1>4

\* Of the three writes of a flush the first begins and the last ends the
\* abstract one; the one between them is not seen.
LEMMA FlushImplements ==
  ASSUME StoreInv
  PROVE  /\ \A drop \in BOOLEAN : FlushVectors(drop) => Abstract!BeginFlush
         /\ FlushChunks => UNCHANGED Abstract!vars
         /\ FlushManifest => Abstract!EndFlush
<1>1. StoreTypeOK /\ DiskSound
  BY InvParts
<1>2. ASSUME NEW drop \in BOOLEAN, FlushVectors(drop) PROVE Abstract!BeginFlush
  <2>1. /\ stage = "open" /\ dirty /\ stage' = "chunks" /\ suspect' = TRUE
        /\ UNCHANGED <<chunk_list, dirty, tainted, faults>>
    BY <1>2 DEF FlushVectors, ram
  <2>2. Content # Closed
    BY <2>1, Shown
  <2>3. Content' = Content /\ Durable' = Unreliable
    BY <2>1 DEF Content, Durable
  <2> QED BY <2>1, <2>2, <2>3 DEF Abstract!BeginFlush
<1>3. ASSUME FlushChunks PROVE UNCHANGED Abstract!vars
  <2>1. /\ stage = "chunks" /\ stage' = "manifest"
        /\ UNCHANGED <<chunk_list, dirty, suspect, tainted, faults>>
    BY <1>3 DEF FlushChunks, ram
  <2>2. suspect
    BY <1>1, <2>1 DEF DiskSound
  <2>3. Content' = Content /\ Durable' = Durable
    BY <2>1, <2>2 DEF Content, Durable
  <2> QED BY <2>1, <2>3 DEF Abstract!vars
<1>4. ASSUME FlushManifest PROVE Abstract!EndFlush
  <2>1. /\ stage = "manifest" /\ dirty' = FALSE
        /\ stage' \in {"closed", "open"} /\ suspect' = tainted
        /\ UNCHANGED <<chunk_list, chunks_jsonl, tainted, faults>>
    BY <1>4 DEF FlushManifest, AfterFlush, ram
  <2>2. suspect /\ chunks_jsonl = chunk_list /\ chunk_list \in Seq(Entry)
    BY <1>1, <2>1 DEF DiskSound, StoreTypeOK
  <2>3. Content # Closed /\ Durable = Unreliable
    BY <2>1, <2>2, Shown
  <2>4. ChunkLines' = chunk_list
    BY <2>1, <2>2, FileValues DEF ChunkLines
  <2>5. Durable' = Content
    BY <2>1, <2>4 DEF Durable, Content
  <2>6. Content' \in {Content, Closed}
    BY <2>1 DEF Content
  <2> QED BY <2>1, <2>3, <2>5, <2>6 DEF Abstract!EndFlush
<1> QED BY <1>2, <1>3, <1>4

\* A crash or a failed write is a fault of the abstract store.
LEMMA FaultImplements ==
  ASSUME StoreInv, Crash \/ \E drop \in BOOLEAN : FlushFails(drop)
  PROVE  Abstract!Fault
<1>1. /\ stage # "closed" /\ faults < MaxFaults /\ faults' = faults + 1
      /\ UNCHANGED <<chunk_list, dirty, tainted>>
      /\ stage' \in {"closed", "open"}
      /\ UNCHANGED <<chunks_jsonl, suspect>> \/ suspect' = TRUE
  BY DEF Crash, FlushFails, ram, disk
<1>2. dirty \in BOOLEAN
  BY InvParts DEF StoreTypeOK
<1>3. Content' \in {Content, Closed}
  BY <1>1 DEF Content
<1>4. Durable' \in {Durable, Unreliable}
  BY <1>1, DurableUntouched DEF Durable
<1> QED BY <1>1, <1>2, <1>3, <1>4 DEF Abstract!Fault

\* Every step is a step of the abstract store or none.
LEMMA StepImplements ==
  StoreInv /\ StoreInv' /\ [StoreNext]_storeVars => [Abstract!Next]_(Abstract!vars)
<1> SUFFICES ASSUME StoreInv, StoreInv', [StoreNext]_storeVars
             PROVE  Abstract!Next \/ UNCHANGED Abstract!vars
  OBVIOUS
<1>1. CASE Open \/ Create
  BY <1>1, OpenImplements, CreateImplements DEF Abstract!Next
<1>2. CASE CreateFails
  BY <1>2, CreateFailsImplements DEF Abstract!Next
<1>3. CASE \E id \in Ids, v \in Versions : Put(id, v)
  BY <1>3, PutImplements DEF Abstract!Next
<1>4. CASE \E P \in Prefixes : RemoveByPathPrefix(P)
  BY <1>4, RemoveImplements DEF Abstract!Next
<1>5. CASE DiscardPendingChanges
  <2>1. /\ stage = "open" /\ dirty' = FALSE
        /\ UNCHANGED <<chunk_list, stage, chunks_jsonl, suspect, tainted, faults>>
    BY <1>5 DEF DiscardPendingChanges, ram, disk
  <2>2. Content # Closed /\ Content' = Content /\ Durable' = Durable
    BY <2>1, Shown, DurableUntouched DEF Content
  <2> QED BY <2>1, <2>2 DEF Abstract!Discard, Abstract!Next
<1>6. CASE DropClean
  <2>1. /\ stage = "open" /\ ~dirty /\ stage' = "closed"
        /\ UNCHANGED <<dirty, chunks_jsonl, suspect, faults>>
    BY <1>6 DEF DropClean, disk
  <2>2. Content # Closed /\ Content' = Closed /\ Durable' = Durable
    BY <2>1, Shown, DurableUntouched DEF Content
  <2> QED BY <2>1, <2>2 DEF Abstract!Close, Abstract!Next
<1>7. CASE \/ \E drop \in BOOLEAN : FlushVectors(drop)
           \/ FlushChunks \/ FlushManifest
  BY <1>7, FlushImplements DEF Abstract!Next
<1>8. CASE Crash \/ \E drop \in BOOLEAN : FlushFails(drop)
  BY <1>8, FaultImplements DEF Abstract!Next
<1>9. CASE UNCHANGED storeVars
  <2>1. UNCHANGED <<chunk_list, chunks_jsonl, stage, suspect, tainted, dirty, faults>>
    BY <1>9 DEF storeVars, ram, disk
  <2>2. Content' = Content /\ Durable' = Durable
    BY <2>1, DurableUntouched DEF Content
  <2> QED BY <2>1, <2>2 DEF Abstract!vars
<1> QED BY <1>1, <1>2, <1>3, <1>4, <1>5, <1>6, <1>7, <1>8, <1>9 DEF StoreNext

\* The disk-backed store keeps what its callers rely on: what a flush persists
\* is what the next open reads, a drop loses nothing but what was discarded,
\* and a flush that was cut is healed by a later one of a sound handle.
THEOREM StoreImplementsIndexStore == StoreSpec => ImplementsIndexStore
<1>1. StoreInit => Abstract!Init
  BY InitImplements
<1>2. StoreInv /\ StoreInv' /\ [StoreNext]_storeVars => [Abstract!Next]_(Abstract!vars)
  BY StepImplements
<1> QED BY <1>1, <1>2, StoreInvariant, PTL DEF StoreSpec, ImplementsIndexStore, Abstract!Spec

-----------------------------------------------------------------------------
(* The directory walk.                                                       *)
IsReport(r) ==
    /\ DOMAIN r = {"files_visited", "files_indexed", "files_skipped", "chunks_put", "errors"}
    /\ r.files_visited \in Nat /\ r.files_indexed \in Nat /\ r.files_skipped \in Nat
    /\ r.chunks_put \in Nat
    /\ r.errors \in Seq(Files \cup {"walk_error"})

\* The chunks of a text in closed form: the lines of the k-th, and which there are.
Cut(n, k) == <<k * Step, IF k * Step + window < n THEN k * Step + window ELSE n>>
CutAt(n)  == {k \in Nat : n > 0 /\ \A j \in 0..k - 1 : j * Step + window < n}

\* The chunker has cut the first of them, and all when it is done.
CutInOrder ==
    /\ ChunkInv
    /\ \A i \in 1..Len(chunks) : chunks[i] = Cut(n_lines, i - 1) /\ i - 1 \in CutAt(n_lines)
    /\ ~done => start = Len(chunks) * Step /\ Len(chunks) \in CutAt(n_lines)
    /\ done => Len(chunks) \notin CutAt(n_lines)

WalkTypes ==
    /\ tree \in [Files -> FileStates]
    /\ todo \subseteq Files /\ current \in Files \cup {None} /\ put_count \in Nat
    /\ seen \in [Files -> Texts \cup {None}]
    /\ outcome \in [Files -> Outcomes \cup {None}]
    /\ IsReport(report)

\* What the store holds is a chunk of some text of some file.
StoreOfCuts ==
    \A c \in store : \E f \in Files, t \in Texts : \E k \in CutAt(t) : c = <<f, t>> \o Cut(t, k)

\* The walk has concluded nothing of a file that it still has to yield ...
Untouched == \A f \in todo : outcome[f] = None /\ seen[f] = None

\* ... nor of the file at hand, whose first chunks are in the store.
Progress ==
    current # None =>
        /\ running /\ outcome[current] = None /\ current \notin todo
        /\ seen[current] = n_lines /\ n_lines \in Texts
        /\ put_count <= Len(chunks)
        /\ \A i \in 1..put_count : <<current, n_lines>> \o chunks[i] \in store

\* An indexed file is in the store with every line.
Held(f, l) == \E c \in store : c[1] = f /\ c[2] = seen[f] /\ c[3] <= l /\ l < c[4]
IndexedWhole ==
    \A f \in FilesWith({"indexed"}) : seen[f] \in Texts /\ \A l \in 0..seen[f] - 1 : Held(f, l)

\* A file that was read, and is not at hand, is indexed or named.
Named(f) == \E i \in DOMAIN report.errors : report.errors[i] = f
Answered == \A f \in Files : seen[f] # None /\ f # current => outcome[f] = "indexed" \/ Named(f)

IndexedChunks == {c \in store : c[1] \in FilesWith({"indexed"}) /\ c[2] = seen[c[1]]}
Counted == IsFiniteSet(IndexedChunks) /\ CountersAddUp

WalkInv == /\ CutInOrder /\ WalkTypes /\ StoreOfCuts /\ Untouched /\ Progress
           /\ IndexedWhole /\ Answered /\ Counted

-----------------------------------------------------------------------------
\* The closed form depends on the chunker's parameters alone.
LEMMA CutsKept ==
  ASSUME UNCHANGED <<window, stride>>
  PROVE  /\ Step' = Step
         /\ \A n, k : Cut(n, k)' = Cut(n, k)
         /\ \A n : CutAt(n)' = CutAt(n)
BY DEF Cut, CutAt, Step

\* With one chunk there are all the earlier ones.
LEMMA CutsAreFirst ==
  ASSUME NEW n \in Nat, NEW k \in CutAt(n), NEW m \in Nat, m <= k
  PROVE  m \in CutAt(n)
<1>1. k \in Nat /\ n > 0 /\ \A j \in 0..k - 1 : j * Step + window < n
  BY DEF CutAt
<1>2. \A j \in 0..m - 1 : j \in 0..k - 1
  BY <1>1
<1> QED BY <1>1, <1>2 DEF CutAt

\* A turn of the chunker's loop cuts the next one.
LEMMA PushInOrder ==
  ASSUME CutInOrder, Push
  PROVE  CutInOrder'
<1>1. /\ n_lines \in Nat /\ window \in Nat /\ stride \in Nat /\ start \in Nat
      /\ stride < window /\ ~done /\ chunks \in Seq(Nat \X Nat)
      /\ n_lines' = n_lines /\ window' = window /\ stride' = stride
      /\ done' = (End = n_lines)
      /\ start' = IF done' THEN start ELSE start + Step
      /\ chunks' = Append(chunks, <<start, End>>)
  BY DEF Push, CutInOrder, ChunkInv, ChunkTypes
<1>2. Step \in Nat /\ Step > 0
  BY <1>1 DEF Step
<1>3. ChunkInv'
  BY ChunkStep DEF CutInOrder, Next
<1>4. PICK n : n = Len(chunks)
  OBVIOUS
<1>5. /\ n \in Nat /\ DOMAIN chunks = 1..n /\ Len(chunks') = n + 1
      /\ \A i \in 1..n : chunks'[i] = chunks[i]
      /\ chunks'[n + 1] = <<start, End>>
  BY SMTT(30), <1>1, <1>4
<1>6. start = n * Step /\ n \in CutAt(n_lines)
  BY <1>1, <1>4 DEF CutInOrder
<1>7. \A i \in 1..n : chunks[i] = Cut(n_lines, i - 1) /\ i - 1 \in CutAt(n_lines)
  BY <1>4 DEF CutInOrder
<1>8. <<start, End>> = Cut(n_lines, n)
  BY <1>6 DEF Cut, End
<1>9. /\ \A k : Cut(n_lines, k)' = Cut(n_lines, k)
      /\ CutAt(n_lines)' = CutAt(n_lines) /\ Step' = Step
  BY CutsKept, <1>1 DEF Cut, CutAt
<1>10. End = n_lines <=> ~(n * Step + window < n_lines)
  <2>1. PICK m : m = n * Step
    OBVIOUS
  <2>2. m = start
    BY <2>1, <1>6
  <2> QED BY <2>1, <2>2, <1>1 DEF End
<1>11. n + 1 \in CutAt(n_lines) <=> n * Step + window < n_lines
  <2>1. n_lines > 0 /\ \A j \in 0..n - 1 : j * Step + window < n_lines
    BY <1>6 DEF CutAt
  <2>2. n + 1 \in CutAt(n_lines) <=> \A j \in 0..n : j * Step + window < n_lines
    <3>1. 0..(n + 1) - 1 = 0..n /\ n + 1 \in Nat
      BY <1>5
    <3> QED BY <2>1, <3>1 DEF CutAt
  <2>3. \A j \in 0..n : j \in 0..n - 1 \/ j = n
    BY <1>5
  <2>4. n \in 0..n
    BY <1>5
  <2> QED BY <2>1, <2>2, <2>3, <2>4
<1>12. \A i \in 1..Len(chunks') : chunks'[i] = Cut(n_lines, i - 1) /\ i - 1 \in CutAt(n_lines)
  <2> SUFFICES ASSUME NEW i \in 1..n + 1
               PROVE  chunks'[i] = Cut(n_lines, i - 1) /\ i - 1 \in CutAt(n_lines)
    BY <1>5
  <2>1. i \in 1..n \/ (i = n + 1 /\ i - 1 = n)
    BY <1>5
  <2> QED BY <2>1, <1>5, <1>6, <1>7, <1>8
<1>13. ~done' => start' = Len(chunks') * Step
  <2> SUFFICES ASSUME ~done' PROVE start' = (n + 1) * Step
    BY <1>5
  <2>1. start' = n * Step + Step
    BY <1>1, <1>6
  <2> QED BY <2>1, <1>2, <1>5
<1> QED BY <1>1, <1>3, <1>5, <1>9, <1>10, <1>11, <1>12, <1>13 DEF CutInOrder

\* Nothing changes for the chunks while the chunker rests.
LEMMA CutsRest ==
  ASSUME CutInOrder, UNCHANGED vars
  PROVE  CutInOrder'
<1>1. ChunkInv'
  BY ChunkStep DEF CutInOrder
<1> QED BY <1>1 DEF CutInOrder, vars, Cut, CutAt, Step

\* The store's chunks stay chunks of texts.
LEMMA StoreRests ==
  ASSUME StoreOfCuts, UNCHANGED <<store, window, stride>>
  PROVE  StoreOfCuts'
<1>1. (\A n, k : Cut(n, k)' = Cut(n, k)) /\ (\A n : CutAt(n)' = CutAt(n))
  BY CutsKept
<1> QED BY <1>1, ZenonT(60) DEF StoreOfCuts

\* What IndexReport::apply does to a report.
LEMMA ReportEffects ==
  ASSUME NEW r, IsReport(r), NEW n \in Nat, NEW f \in Files \cup {"walk_error"}
  PROVE  /\ IsReport(ApplyIndexed(r, n))
         /\ ApplyIndexed(r, n).files_visited = r.files_visited + 1
         /\ ApplyIndexed(r, n).files_indexed = r.files_indexed + 1
         /\ ApplyIndexed(r, n).files_skipped = r.files_skipped
         /\ ApplyIndexed(r, n).chunks_put = r.chunks_put + n
         /\ ApplyIndexed(r, n).errors = r.errors
         /\ \A q \in {ApplySkipped(r), ApplyError(r, f)} :
               /\ IsReport(q)
               /\ q.files_visited = r.files_visited + 1
               /\ q.files_indexed = r.files_indexed
               /\ q.files_skipped = r.files_skipped + 1
               /\ q.chunks_put = r.chunks_put
         /\ ApplySkipped(r).errors = r.errors
         /\ ApplyError(r, f).errors = Append(r.errors, f)
<1>1. Append(r.errors, f) \in Seq(Files \cup {"walk_error"})
  BY DEF IsReport
<1>2. PICK s : s = ApplySkipped(r)
  OBVIOUS
<1>3. /\ DOMAIN s = DOMAIN r
      /\ s.files_visited = r.files_visited + 1
      /\ s.files_indexed = r.files_indexed
      /\ s.files_skipped = r.files_skipped + 1
      /\ s.chunks_put = r.chunks_put
      /\ s.errors = r.errors
  BY <1>2 DEF ApplySkipped, IsReport
<1>4. PICK q : q = ApplyError(r, f)
  OBVIOUS
<1>5. /\ DOMAIN q = DOMAIN r
      /\ q.files_visited = r.files_visited + 1
      /\ q.files_indexed = r.files_indexed
      /\ q.files_skipped = r.files_skipped + 1
      /\ q.chunks_put = r.chunks_put
      /\ q.errors = Append(r.errors, f)
  BY <1>2, <1>3, <1>4 DEF ApplyError, IsReport
<1>6. PICK i : i = ApplyIndexed(r, n)
  OBVIOUS
<1>7. /\ DOMAIN i = DOMAIN r
      /\ i.files_visited = r.files_visited + 1
      /\ i.files_indexed = r.files_indexed + 1
      /\ i.files_skipped = r.files_skipped
      /\ i.chunks_put = r.chunks_put + n
      /\ i.errors = r.errors
  BY <1>6 DEF ApplyIndexed, IsReport
<1>8. IsReport(s) /\ IsReport(q) /\ IsReport(i)
  BY SMTT(30), <1>1, <1>3, <1>5, <1>7 DEF IsReport
<1> QED BY <1>2, <1>3, <1>4, <1>5, <1>6, <1>7, <1>8

\* The files with one of some outcomes, when one more is concluded.
LEMMA OneConcluded ==
  ASSUME WalkTypes, NEW f \in Files, outcome[f] = None,
         NEW o \in Outcomes, outcome' = [outcome EXCEPT ![f] = o], NEW S \in SUBSET Outcomes
  PROVE  /\ f \notin FilesWith(S)
         /\ FilesWith(S)' = IF o \in S THEN FilesWith(S) \cup {f} ELSE FilesWith(S)
         /\ Cardinality(FilesWith(S)) \in Nat
         /\ Cardinality(FilesWith(S)') = IF o \in S THEN Cardinality(FilesWith(S)) + 1
                                                    ELSE Cardinality(FilesWith(S))
<1>1. f \notin FilesWith(S)
  BY IndexAssumption DEF FilesWith
<1>2. FilesWith(S)' = IF o \in S THEN FilesWith(S) \cup {f} ELSE FilesWith(S)
  BY IndexAssumption DEF FilesWith, WalkTypes
<1>3. IsFiniteSet(FilesWith(S))
  BY FS_Subset, IndexAssumption DEF FilesWith
<1>4. PICK F : F = FilesWith(S)
  OBVIOUS
<1>5. Cardinality(F) \in Nat /\ Cardinality(F \cup {f}) = Cardinality(F) + 1
  BY <1>1, <1>3, <1>4, FS_CardinalityType, FS_AddElement
<1> QED BY <1>1, <1>2, <1>4, <1>5

\* A file stays named while errors are only added.
LEMMA NamedStays ==
  ASSUME IsReport(report),
         \/ report'.errors = report.errors
         \/ \E x \in Files \cup {"walk_error"} : report'.errors = Append(report.errors, x)
  PROVE  \A g : Named(g) => Named(g)'
<1>1. PICK e \in Seq(Files \cup {"walk_error"}) : e = report.errors
  BY DEF IsReport
<1>2. CASE report'.errors = e
  BY <1>1, <1>2 DEF Named
<1>3. CASE \E x \in Files \cup {"walk_error"} : report'.errors = Append(e, x)
  <2>1. PICK x \in Files \cup {"walk_error"} : report'.errors = Append(e, x)
    BY <1>3
  <2>2. \A i \in DOMAIN e : i \in DOMAIN Append(e, x) /\ Append(e, x)[i] = e[i]
    <3>1. PICK E : E = Files \cup {"walk_error"}
      OBVIOUS
    <3>2. e \in Seq(E) /\ x \in E
      BY <3>1
    <3> QED BY <3>2, AppendProperties
  <2> QED BY <1>1, <2>1, <2>2 DEF Named
<1> QED BY <1>1, <1>2, <1>3

-----------------------------------------------------------------------------
\* The first step.
LEMMA InitWalk == WalkInit => WalkInv
<1> SUFFICES ASSUME WalkInit PROVE WalkInv
  OBVIOUS
<1>1. CutInOrder
  <2>1. ChunkInv /\ n_lines = 0 /\ done /\ chunks = <<>>
    BY ChunkInit DEF WalkInit, Init
  <2>2. \A n \in {0} : CutAt(n) = {}
    BY DEF CutAt
  <2> QED BY <2>1, <2>2 DEF CutInOrder
<1>2. IsReport(report)
  <2>1. <<>> \in Seq(Files \cup {"walk_error"})
    OBVIOUS
  <2> QED BY <2>1 DEF WalkInit, EmptyReport, IsReport
<1>3. WalkTypes
  BY <1>2 DEF WalkInit, WalkTypes, FileStates
<1>4. \A S \in SUBSET Outcomes : FilesWith(S) = {}
  BY IndexAssumption DEF WalkInit, FilesWith
<1>5. FilesWith({"indexed"}) = {} /\ FilesWith({"skipped", "error"}) = {}
  BY <1>4 DEF Outcomes
<1>6. StoreOfCuts /\ Untouched /\ Progress /\ IndexedWhole /\ Answered
  BY <1>5 DEF WalkInit, StoreOfCuts, Untouched, Progress, IndexedWhole, Answered
<1>7. IndexedChunks = {}
  BY DEF IndexedChunks, WalkInit
<1>8. Counted
  <2>1. {c \in store : c[1] \in FilesWith({"indexed"}) /\ c[2] = seen[c[1]]} = {}
    BY <1>7 DEF IndexedChunks
  <2>3. Cardinality({}) = 0 /\ IsFiniteSet({})
    BY FS_EmptySet
  <2>2. /\ report.files_visited = 0 /\ report.files_indexed = 0
        /\ report.files_skipped = 0 /\ report.chunks_put = 0
    BY DEF WalkInit, EmptyReport
  <2>4. report.files_visited = report.files_indexed + report.files_skipped
    BY <2>2
  <2>5. /\ report.files_indexed = Cardinality(FilesWith({"indexed"}))
        /\ report.files_skipped = Cardinality(FilesWith({"skipped", "error"}))
    BY <1>5, <2>2, <2>3
  <2>6. IsFiniteSet(IndexedChunks) /\ report.chunks_put = Cardinality(IndexedChunks)
    BY <1>7, <2>2, <2>3
  <2> QED BY <2>4, <2>5, <2>6 DEF Counted, CountersAddUp, IndexedChunks
<1> QED BY <1>1, <1>3, <1>6, <1>8 DEF WalkInv

\* A run starts from an empty report.
LEMMA StartWalk ==
  ASSUME WalkInv, Start
  PROVE  WalkInv'
<1>1. current = None
  BY DEF WalkInv, Progress, Start
<1>2. CutInOrder' /\ StoreOfCuts'
  BY CutsRest, StoreRests DEF WalkInv, Start, vars
<1>3. IsReport(report)'
  <2>1. <<>> \in Seq(Files \cup {"walk_error"})
    OBVIOUS
  <2> QED BY <2>1 DEF Start, EmptyReport, IsReport
<1>4. WalkTypes'
  BY <1>3 DEF WalkInv, Start, WalkTypes
<1>5. \A S \in SUBSET Outcomes : FilesWith(S)' = {}
  BY IndexAssumption DEF Start, FilesWith
<1>6. FilesWith({"indexed"})' = {} /\ FilesWith({"skipped", "error"})' = {}
  BY <1>5 DEF Outcomes
<1>7. Untouched' /\ Progress' /\ IndexedWhole' /\ Answered'
  BY <1>1, <1>6 DEF Start, Untouched, Progress, IndexedWhole, Answered
<1>8. Counted'
  <2>1. {c \in store : c[1] \in FilesWith({"indexed"}) /\ c[2] = seen[c[1]]}' = {}
    BY <1>6
  <2>2. /\ report'.files_visited = 0 /\ report'.files_indexed = 0
        /\ report'.files_skipped = 0 /\ report'.chunks_put = 0
    BY DEF Start, EmptyReport
  <2>3. Cardinality({}) = 0 /\ IsFiniteSet({})
    BY FS_EmptySet
  <2>4. report'.files_visited = report'.files_indexed + report'.files_skipped
    BY <2>2
  <2>5. /\ report'.files_indexed = Cardinality(FilesWith({"indexed"})')
        /\ report'.files_skipped = Cardinality(FilesWith({"skipped", "error"})')
    BY <1>6, <2>2, <2>3
  <2>6. IndexedChunks' = {}
    BY <2>1 DEF IndexedChunks
  <2>7. IsFiniteSet(IndexedChunks') /\ report'.chunks_put = Cardinality(IndexedChunks')
    BY <2>2, <2>3, <2>6
  <2> QED BY <2>4, <2>5, <2>7 DEF Counted, CountersAddUp, IndexedChunks
<1> QED BY <1>2, <1>4, <1>7, <1>8 DEF WalkInv

-----------------------------------------------------------------------------
\* A file that is not indexed is counted as skipped, or only named.
LEMMA NotIndexedCounted ==
  ASSUME WalkTypes, Counted, NEW f \in Files, outcome[f] = None,
         NEW o \in {"skipped", "error", "walk_error"}, outcome' = [outcome EXCEPT ![f] = o],
         UNCHANGED <<store, seen>>,
         report'.files_visited = report.files_visited + (IF o = "walk_error" THEN 0 ELSE 1),
         report'.files_skipped = report.files_skipped + (IF o = "walk_error" THEN 0 ELSE 1),
         report'.files_indexed = report.files_indexed, report'.chunks_put = report.chunks_put
  PROVE  Counted' /\ FilesWith({"indexed"})' = FilesWith({"indexed"})
<1>1. o \in Outcomes /\ {"indexed"} \in SUBSET Outcomes /\ {"skipped", "error"} \in SUBSET Outcomes
  BY DEF Outcomes
<1>2. /\ FilesWith({"indexed"})' = FilesWith({"indexed"})
      /\ Cardinality(FilesWith({"indexed"})') = Cardinality(FilesWith({"indexed"}))
  <2>1. PICK S \in SUBSET Outcomes : S = {"indexed"}
    BY <1>1
  <2>2. o \notin S
    BY <2>1
  <2>3. FilesWith(S)' = FilesWith(S) /\ Cardinality(FilesWith(S)') = Cardinality(FilesWith(S))
    BY OneConcluded, <1>1, <2>2
  <2> QED BY <2>1, <2>3
<1>3. /\ Cardinality(FilesWith({"skipped", "error"})) \in Nat
      /\ Cardinality(FilesWith({"skipped", "error"})') =
            Cardinality(FilesWith({"skipped", "error"})) + (IF o = "walk_error" THEN 0 ELSE 1)
  <2>1. PICK S \in SUBSET Outcomes : S = {"skipped", "error"}
    BY <1>1
  <2>2. /\ Cardinality(FilesWith(S)) \in Nat
        /\ Cardinality(FilesWith(S)') = IF o \in S THEN Cardinality(FilesWith(S)) + 1
                                                   ELSE Cardinality(FilesWith(S))
    BY OneConcluded, <1>1
  <2>3. o \in S <=> o # "walk_error"
    BY <2>1
  <2> QED BY <2>1, <2>2, <2>3
<1>4. IndexedChunks' = IndexedChunks
  BY <1>2 DEF IndexedChunks
<1>5. /\ report.files_visited \in Nat /\ report.files_skipped \in Nat /\ report.files_indexed \in Nat
  BY DEF WalkTypes, IsReport
<1>6. /\ report.files_visited = report.files_indexed + report.files_skipped
      /\ report.files_indexed = Cardinality(FilesWith({"indexed"}))
      /\ report.files_skipped = Cardinality(FilesWith({"skipped", "error"}))
      /\ report.chunks_put = Cardinality(IndexedChunks)
      /\ IsFiniteSet(IndexedChunks)
  BY DEF Counted, CountersAddUp, IndexedChunks
<1>7. /\ report'.files_visited = report'.files_indexed + report'.files_skipped
      /\ report'.files_indexed = Cardinality(FilesWith({"indexed"})')
      /\ report'.files_skipped = Cardinality(FilesWith({"skipped", "error"})')
      /\ report'.chunks_put = Cardinality(IndexedChunks')
      /\ IsFiniteSet(IndexedChunks')
  BY <1>2, <1>3, <1>4, <1>5, <1>6
<1> QED BY <1>2, <1>7 DEF Counted, CountersAddUp, IndexedChunks

\* An entry that yields no text.
LEMMA PassedOver ==
  ASSUME WalkInv, NEW f \in todo, current = None,
         NEW o \in {"skipped", "walk_error"}, outcome' = [outcome EXCEPT ![f] = o],
         todo' = todo \ {f}, UNCHANGED <<tree, store, current, put_count, seen, vars>>,
         IsReport(report'), \A g : Named(g) => Named(g)',
         report'.files_visited = report.files_visited + (IF o = "walk_error" THEN 0 ELSE 1),
         report'.files_skipped = report.files_skipped + (IF o = "walk_error" THEN 0 ELSE 1),
         report'.files_indexed = report.files_indexed, report'.chunks_put = report.chunks_put
  PROVE  WalkInv'
<1>1. f \in Files /\ outcome[f] = None /\ seen[f] = None
  BY DEF WalkInv, WalkTypes, Untouched
<1>2. Counted' /\ FilesWith({"indexed"})' = FilesWith({"indexed"})
  BY <1>1, NotIndexedCounted DEF WalkInv
<1>3. CutInOrder' /\ StoreOfCuts'
  BY CutsRest, StoreRests DEF WalkInv, vars
<1>4. WalkTypes'
  <2>1. o \in Outcomes
    BY DEF Outcomes
  <2>2. outcome' \in [Files -> Outcomes \cup {None}]
    BY <1>1, <2>1 DEF WalkInv, WalkTypes
  <2> QED BY <2>2 DEF WalkInv, WalkTypes, IsReport
<1>5. \A g \in Files : g # f => outcome'[g] = outcome[g]
  BY DEF WalkInv, WalkTypes
<1>6. Untouched' /\ Progress'
  BY <1>5 DEF WalkInv, WalkTypes, Untouched, Progress
<1>7. IndexedWhole'
  BY <1>2 DEF WalkInv, IndexedWhole, Held
<1>8. Answered'
  BY <1>1, <1>5 DEF WalkInv, Answered
<1> QED BY <1>2, <1>3, <1>4, <1>6, <1>7, <1>8 DEF WalkInv

\* An entry of the walk that is an error.
LEMMA WalkErrorWalk ==
  ASSUME WalkInv, NEW f \in Files, WalkError(f)
  PROVE  WalkInv'
<1>1. PICK r : r = report
  OBVIOUS
<1>2. IsReport(r)
  BY <1>1 DEF WalkInv, WalkTypes
<1>3. PICK q : q = [r EXCEPT !.errors = Append(@, "walk_error")]
  OBVIOUS
<1>4. /\ DOMAIN q = DOMAIN r
      /\ q.files_visited = r.files_visited
      /\ q.files_indexed = r.files_indexed
      /\ q.files_skipped = r.files_skipped
      /\ q.chunks_put = r.chunks_put
      /\ q.errors = Append(r.errors, "walk_error")
  BY <1>2, <1>3 DEF IsReport
<1>5. Append(r.errors, "walk_error") \in Seq(Files \cup {"walk_error"})
  BY <1>2 DEF IsReport
<1>6. IsReport(q) /\ q.files_visited \in Nat /\ q.files_skipped \in Nat
  BY <1>2, <1>4, <1>5 DEF IsReport
<1>7. report' = q
  BY <1>1, <1>3 DEF WalkError
<1>8. \A g : Named(g) => Named(g)'
  BY NamedStays, <1>1, <1>2, <1>4, <1>7
<1>9. /\ f \in todo /\ current = None /\ todo' = todo \ {f}
      /\ outcome' = [outcome EXCEPT ![f] = "walk_error"]
      /\ UNCHANGED <<tree, store, current, put_count, seen, vars>>
  BY DEF WalkError
<1>10. /\ report'.files_visited = report.files_visited + 0
       /\ report'.files_skipped = report.files_skipped + 0
       /\ report'.files_indexed = report.files_indexed /\ report'.chunks_put = report.chunks_put
  BY <1>1, <1>4, <1>6, <1>7
<1> QED BY PassedOver, <1>6, <1>7, <1>8, <1>9, <1>10

\* A file that is not read, for its kind or an error.
LEMMA SkipWalk ==
  ASSUME WalkInv, NEW f \in Files, Skip(f)
  PROVE  WalkInv'
<1>1. IsReport(report) /\ report.files_visited \in Nat /\ report.files_skipped \in Nat
  BY DEF WalkInv, WalkTypes, IsReport
<1>2. report' \in {ApplySkipped(report), ApplyError(report, f)}
  BY DEF Skip
<1>3. /\ IsReport(report')
      /\ report'.files_visited = report.files_visited + 1
      /\ report'.files_indexed = report.files_indexed
      /\ report'.files_skipped = report.files_skipped + 1
      /\ report'.chunks_put = report.chunks_put
      /\ report'.errors = report.errors \/ report'.errors = Append(report.errors, f)
  BY ReportEffects, <1>1, <1>2
<1>4. \A g : Named(g) => Named(g)'
  BY NamedStays, <1>1, <1>3
<1> QED BY PassedOver, <1>3, <1>4 DEF Skip

\* A file that is gone leaves nothing behind.
LEMMA MissWalk ==
  ASSUME WalkInv, NEW f \in Files, Miss(f)
  PROVE  WalkInv'
<1>1. CutInOrder' /\ StoreOfCuts'
  BY CutsRest, StoreRests DEF WalkInv, vars, Miss
<1>2. WalkTypes'
  BY DEF WalkInv, WalkTypes, Miss, IsReport
<1>3. Untouched' /\ Progress' /\ Answered'
  BY DEF WalkInv, Miss, Untouched, Progress, Answered, Named
<1>4. FilesWith({"indexed"})' = FilesWith({"indexed"}) /\ FilesWith({"skipped", "error"})' = FilesWith({"skipped", "error"})
  BY DEF FilesWith, Miss
<1>5. IndexedWhole'
  BY <1>4 DEF WalkInv, Miss, IndexedWhole, Held
<1>6. Counted'
  BY <1>4 DEF WalkInv, Miss, Counted, CountersAddUp, IndexedChunks
<1> QED BY <1>1, <1>2, <1>3, <1>5, <1>6 DEF WalkInv

-----------------------------------------------------------------------------
\* What is counted depends on the outcomes, the store, the texts and the report.
LEMMA CountRests ==
  ASSUME Counted, IndexedWhole, UNCHANGED <<store, outcome, seen, report>>
  PROVE  Counted' /\ IndexedWhole'
<1>1. \A S : FilesWith(S)' = FilesWith(S)
  BY DEF FilesWith
<1> QED BY <1>1 DEF Counted, CountersAddUp, IndexedChunks, IndexedWhole, Held

\* A text is its number of lines.
LEMMA TextsAreNat == \A t \in Texts : t \in Nat
BY IndexAssumption, ChunkerAssumption

\* A file is read: the chunker starts on its text.
LEMMA ReadWalk ==
  ASSUME WalkInv, NEW f \in Files, Read(f)
  PROVE  WalkInv'
<1>1. /\ current = None /\ f \in todo /\ tree[f] \in Texts /\ todo' = todo \ {f}
      /\ seen' = [seen EXCEPT ![f] = tree[f]] /\ current' = f /\ n_lines' = tree[f]
      /\ start' = 0 /\ chunks' = <<>> /\ done' = (tree[f] = 0) /\ put_count' = 0
      /\ UNCHANGED <<tree, store, report, outcome, window, stride>>
      /\ running /\ running' = running
  BY DEF Read
<1>2. outcome[f] = None /\ seen[f] = None
  BY <1>1 DEF WalkInv, Untouched
<1>18. PICK n \in Nat : n = tree[f]
  BY <1>1, TextsAreNat
<1>3. n_lines' = n /\ n_lines' \in Nat /\ start' = 0
  BY <1>1, <1>18
<1>19. (done' => n = 0) /\ (~done' => n # 0)
  BY <1>1, <1>18
<1>20. (done' => n = 0) /\ (~done' => n > 0)
  BY <1>19
<1>4. ChunkInv'
  <2>1. ChunkTypes'
    <3>1. window \in Nat /\ stride \in Nat /\ stride < window
      BY DEF WalkInv, CutInOrder, ChunkInv, ChunkTypes
    <3>2. <<>> \in Seq(Nat \X Nat)
      OBVIOUS
    <3> QED BY <1>1, <1>3, <3>1, <3>2 DEF ChunkTypes
  <2>2. NextStart' /\ Spaced'
    <3>1. ~done' => start' < n_lines'
      BY <1>3, <1>20
    <3>2. DOMAIN chunks' = {}
      BY <1>1
    <3> QED BY <3>1, <3>2 DEF NextStart, Spaced
  <2>3. Coverage'
    <3>1. \A l \in 0..n_lines' - 1 : ~(done' \/ l < start')
      <4> SUFFICES ASSUME NEW l \in 0..n - 1 PROVE ~(done' \/ l < 0)
        BY <1>3
      <4>1. n # 0 /\ ~(l < 0)
        OBVIOUS
      <4> QED BY <4>1, <1>3, <1>19
    <3> QED BY <3>1 DEF Coverage
  <2> QED BY <2>1, <2>2, <2>3 DEF ChunkInv
<1>5. CutInOrder'
  <2>1. Len(chunks') = 0
    BY <1>1
  <2>2. 0 \in CutAt(n_lines)' <=> n_lines' > 0
    BY <1>1 DEF CutAt
  <2>3. 0 * Step' = 0
    <3>1. Step' = window' - stride'
      BY DEF Step
    <3>2. window' \in Nat /\ stride' \in Nat
      BY <1>1 DEF WalkInv, CutInOrder, ChunkInv, ChunkTypes
    <3>3. PICK a \in Nat, b \in Nat : a = window' /\ b = stride'
      BY <3>2
    <3>4. 0 * (a - b) = 0
      OBVIOUS
    <3> QED BY <3>1, <3>3, <3>4
  <2>4. done' <=> ~(n_lines' > 0)
    BY <1>3, <1>20
  <2> QED BY <1>1, <1>4, <2>1, <2>2, <2>3, <2>4 DEF CutInOrder
<1>6. StoreOfCuts'
  BY <1>1, StoreRests DEF WalkInv
<1>7. \A g \in Files : g # f => seen'[g] = seen[g]
  BY <1>1 DEF WalkInv, WalkTypes
<1>8. WalkTypes'
  <2>1. seen' \in [Files -> Texts \cup {None}]
    BY <1>1 DEF WalkInv, WalkTypes
  <2> QED BY <1>1, <2>1 DEF WalkInv, WalkTypes, IsReport
<1>9. Untouched'
  BY <1>1, <1>7 DEF WalkInv, WalkTypes, Untouched
<1>10. Progress'
  <2>1. seen'[f] = tree[f]
    BY <1>1 DEF WalkInv, WalkTypes
  <2>2. Len(chunks') = 0
    BY <1>1
  <2> QED BY <1>1, <1>2, <2>1, <2>2 DEF Progress
<1>11. Answered'
  <2>1. \A g : Named(g)' <=> Named(g)
    BY <1>1 DEF Named
  <2> SUFFICES ASSUME NEW g \in Files, seen'[g] # None, g # f
               PROVE  outcome'[g] = "indexed" \/ Named(g)'
    BY <1>1 DEF Answered
  <2>2. seen[g] # None /\ g # current
    BY <1>1, <1>7, IndexAssumption
  <2> QED BY <1>1, <2>1, <2>2 DEF WalkInv, Answered
<1>12. f \notin FilesWith({"indexed"})
  BY <1>2, IndexAssumption DEF FilesWith, Outcomes
<1>13. /\ FilesWith({"indexed"})' = FilesWith({"indexed"})
       /\ FilesWith({"skipped", "error"})' = FilesWith({"skipped", "error"})
       /\ FilesWith({"indexed"}) \subseteq Files
  BY <1>1 DEF FilesWith
<1>14. \A g \in FilesWith({"indexed"}) : seen'[g] = seen[g]
  BY <1>7, <1>12, <1>13
<1>15. IndexedWhole'
  BY <1>1, <1>13, <1>14 DEF WalkInv, IndexedWhole, Held
<1>16. IndexedChunks' = IndexedChunks
  BY <1>1, <1>13, <1>14 DEF IndexedChunks
<1>17. Counted'
  BY <1>1, <1>13, <1>16 DEF WalkInv, Counted, CountersAddUp, IndexedChunks
<1> QED BY <1>5, <1>6, <1>8, <1>9, <1>10, <1>11, <1>15, <1>17 DEF WalkInv

\* The text is cut.
LEMMA ChunkWalk ==
  ASSUME WalkInv, Chunk
  PROVE  WalkInv'
<1>1. Push /\ current # None /\ UNCHANGED walkVars
  BY DEF Chunk
<1>2. UNCHANGED <<tree, store, todo, current, put_count, report, running, seen, outcome>>
  BY <1>1 DEF walkVars
<1>3. CutInOrder'
  BY PushInOrder, <1>1 DEF WalkInv
<1>4. StoreOfCuts'
  BY StoreRests, <1>1, <1>2 DEF WalkInv, Push
<1>5. WalkTypes' /\ Untouched' /\ Answered'
  BY <1>2 DEF WalkInv, WalkTypes, Untouched, Answered, Named, IsReport
<1>6. Counted' /\ IndexedWhole'
  BY CountRests, <1>2 DEF WalkInv
<1>7. Progress'
  <2>1. chunks \in Seq(Nat \X Nat) /\ chunks' = Append(chunks, <<start, End>>) /\ n_lines' = n_lines
    BY <1>1 DEF WalkInv, CutInOrder, ChunkInv, ChunkTypes, Push
  <2>2. PICK new : new = <<start, End>>
    OBVIOUS
  <2>3. /\ Len(chunks) \in Nat /\ Len(chunks') = Len(chunks) + 1
        /\ \A i \in 1..Len(chunks) : chunks'[i] = chunks[i]
    BY <2>1, <2>2
  <2>4. put_count \in Nat /\ put_count <= Len(chunks)
    BY <1>1 DEF WalkInv, WalkTypes, Progress
  <2>5. \A i \in 1..put_count : i \in 1..Len(chunks)
    BY <2>3, <2>4
  <2>6. put_count <= Len(chunks')
    BY <2>3, <2>4
  <2> QED BY <1>1, <1>2, <2>1, <2>3, <2>5, <2>6 DEF WalkInv, Progress
<1> QED BY <1>3, <1>4, <1>5, <1>6, <1>7 DEF WalkInv

\* A chunk of the file at hand is none of an indexed file.
LEMMA PutChunkWalk ==
  ASSUME WalkInv, PutChunk
  PROVE  WalkInv'
<1>1. /\ current # None /\ done /\ put_count < Len(chunks)
      /\ store' = store \cup {<<current, n_lines>> \o chunks[put_count + 1]}
      /\ put_count' = put_count + 1
      /\ UNCHANGED <<tree, todo, current, report, running, seen, outcome, vars>>
  BY DEF PutChunk
<1>2. /\ put_count \in Nat /\ current \in Files /\ outcome[current] = None
      /\ n_lines \in Texts /\ Len(chunks) \in Nat
  BY <1>1 DEF WalkInv, WalkTypes, Progress, CutInOrder, ChunkInv, ChunkTypes
<1>3. put_count + 1 \in 1..Len(chunks)
  BY <1>1, <1>2
<1>4. /\ chunks[put_count + 1] = Cut(n_lines, put_count)
      /\ put_count \in CutAt(n_lines)
  <2>1. (put_count + 1) - 1 = put_count
    BY <1>2
  <2> QED BY <1>3, <2>1 DEF WalkInv, CutInOrder
<1>5. PICK new : new = <<current, n_lines>> \o chunks[put_count + 1]
  OBVIOUS
<1>6. new[1] = current
  BY <1>4, <1>5 DEF Cut
<1>7. CutInOrder'
  BY CutsRest, <1>1 DEF WalkInv
<1>8. StoreOfCuts'
  <2>1. (\A n, k : Cut(n, k)' = Cut(n, k)) /\ (\A n : CutAt(n)' = CutAt(n))
    BY CutsKept, <1>1 DEF vars
  <2>2. \E f \in Files, t \in Texts : \E k \in CutAt(t) : new = <<f, t>> \o Cut(t, k)
    BY <1>2, <1>4, <1>5
  <2>3. store' = store \cup {new}
    BY <1>1, <1>5
  <2> SUFFICES ASSUME NEW c \in store'
               PROVE  \E f \in Files, t \in Texts : \E k \in CutAt(t) : c = <<f, t>> \o Cut(t, k)
    BY <2>1 DEF StoreOfCuts
  <2>4. CASE c = new
    BY <2>2, <2>4
  <2>5. CASE c \in store
    BY <2>5 DEF WalkInv, StoreOfCuts
  <2> QED BY <2>3, <2>4, <2>5
<1>9. WalkTypes' /\ Untouched' /\ Answered'
  BY <1>1, <1>2 DEF WalkInv, WalkTypes, Untouched, Answered, Named, IsReport
<1>10. Progress'
  <2>1. put_count + 1 <= Len(chunks)
    BY <1>3
  <2>2. \A i \in 1..put_count + 1 : i \in 1..put_count \/ i = put_count + 1
    BY <1>2
  <2>3. \A i \in 1..put_count + 1 : <<current, n_lines>> \o chunks[i] \in store'
    BY <1>1, <2>2 DEF WalkInv, Progress
  <2>4. chunks' = chunks /\ n_lines' = n_lines
    BY <1>1 DEF vars
  <2> QED BY <1>1, <2>1, <2>3, <2>4 DEF WalkInv, Progress
<1>11. \A S : FilesWith(S)' = FilesWith(S)
  BY <1>1 DEF FilesWith
<1>12. current \notin FilesWith({"indexed"})
  BY <1>2, IndexAssumption DEF FilesWith, Outcomes
<1>13. IndexedChunks' = IndexedChunks
  <2>1. store' = store \cup {new}
    BY <1>1, <1>5
  <2>2. seen' = seen
    BY <1>1
  <2> QED BY <1>6, <1>11, <1>12, <2>1, <2>2 DEF IndexedChunks
<1>14. Counted'
  BY <1>1, <1>11, <1>13 DEF WalkInv, Counted, CountersAddUp, IndexedChunks
<1>15. IndexedWhole'
  BY <1>1, <1>11 DEF WalkInv, IndexedWhole, Held
<1> QED BY <1>7, <1>8, <1>9, <1>10, <1>14, <1>15 DEF WalkInv

-----------------------------------------------------------------------------
\* A stored chunk is its file, its text and the two ends of its lines.
LEMMA PieceShape ==
  ASSUME NEW f, NEW t, NEW k, NEW a, NEW b, k = <<a, b>>
  PROVE  <<f, t>> \o k = <<f, t, a, b>>
<1>0. PICK S : f \in S /\ t \in S /\ a \in S /\ b \in S
  <2>1. f \in {f, t, a, b} /\ t \in {f, t, a, b} /\ a \in {f, t, a, b} /\ b \in {f, t, a, b}
    OBVIOUS
  <2> QED BY <2>1
<1>1. PICK p \in Seq(S) : p = <<f, t>>
  <2>1. <<f, t>> \in Seq(S)
    BY <1>0
  <2> QED BY <2>1
<1>2. PICK q \in Seq(S) : q = <<a, b>>
  <2>1. <<a, b>> \in Seq(S)
    BY <1>0
  <2> QED BY <2>1
<1>3. /\ p \o q \in Seq(S) /\ Len(p \o q) = Len(p) + Len(q)
      /\ \A i \in 1..Len(p) + Len(q) : (p \o q)[i] = IF i <= Len(p) THEN p[i] ELSE q[i - Len(p)]
  BY ConcatProperties
<1>4. Len(p) = 2 /\ Len(q) = 2 /\ p[1] = f /\ p[2] = t /\ q[1] = a /\ q[2] = b
  BY <1>1, <1>2
<1>5. PICK r \in Seq(S) : r = p \o q
  BY <1>3
<1>6. Len(r) = 4 /\ r[1] = f /\ r[2] = t /\ r[3] = a /\ r[4] = b
  BY <1>3, <1>4, <1>5
<1>7. r = <<f, t, a, b>>
  BY <1>6
<1> QED BY <1>1, <1>2, <1>5, <1>7

\* What the store holds of a text that is put whole: its chunks, one by one.
LEMMA WholeText ==
  ASSUME WalkInv, current # None, done, put_count = Len(chunks)
  PROVE  LET whole == {c \in store : c[1] = current /\ c[2] = n_lines}
         IN  /\ IsFiniteSet(whole) /\ Cardinality(whole) = Len(chunks)
             /\ \A i \in 1..Len(chunks) : <<current, n_lines>> \o chunks[i] \in whole
<1> DEFINE piece == [i \in 1..Len(chunks) |-> <<current, n_lines>> \o chunks[i]]
           whole == {c \in store : c[1] = current /\ c[2] = n_lines}
<1>1. /\ Len(chunks) \in Nat /\ n_lines \in Nat /\ current \in Files /\ n_lines \in Texts
      /\ Len(chunks) \notin CutAt(n_lines)
      /\ \A i \in 1..Len(chunks) : chunks[i] = Cut(n_lines, i - 1)
      /\ \A i \in 1..Len(chunks) : <<current, n_lines>> \o chunks[i] \in store
  BY DEF WalkInv, WalkTypes, CutInOrder, ChunkInv, ChunkTypes, Progress
<1>2. \A i \in 1..Len(chunks) : \E a, b : chunks[i] = <<a, b>>
  BY <1>1 DEF Cut
<1>3. \A i \in 1..Len(chunks) :
         /\ piece[i][1] = current /\ piece[i][2] = n_lines
         /\ piece[i][3] = chunks[i][1]
  <2> SUFFICES ASSUME NEW i \in 1..Len(chunks)
               PROVE  /\ piece[i][1] = current /\ piece[i][2] = n_lines
                      /\ piece[i][3] = chunks[i][1]
    OBVIOUS
  <2>1. PICK a, b : chunks[i] = <<a, b>>
    BY <1>2
  <2>2. piece[i] = <<current, n_lines, a, b>>
    <3>1. <<current, n_lines>> \o chunks[i] = <<current, n_lines, a, b>>
      BY <2>1, PieceShape
    <3> QED BY <3>1
  <2> QED BY <2>1, <2>2
<1>4. \A i \in 1..Len(chunks) : piece[i] \in whole
  BY <1>1, <1>3
<1>5. \A c \in whole : \E i \in 1..Len(chunks) : piece[i] = c
  <2> SUFFICES ASSUME NEW c \in whole PROVE \E i \in 1..Len(chunks) : piece[i] = c
    OBVIOUS
  <2>1. PICK f \in Files, t \in Texts : \E k \in CutAt(t) : c = <<f, t>> \o Cut(t, k)
    BY DEF WalkInv, StoreOfCuts
  <2>2. PICK k \in CutAt(t) : c = <<f, t>> \o Cut(t, k)
    BY <2>1
  <2>3. c[1] = f /\ c[2] = t
    BY <2>2 DEF Cut
  <2>4. f = current /\ t = n_lines
    BY <2>3
  <2>5. k \in Nat /\ k < Len(chunks)
    <3>1. k \in Nat
      BY DEF CutAt
    <3>2. ~(Len(chunks) <= k)
      BY <1>1, <2>4, CutsAreFirst
    <3> QED BY <1>1, <3>1, <3>2
  <2>6. k + 1 \in 1..Len(chunks) /\ (k + 1) - 1 = k
    BY <1>1, <2>5
  <2>7. piece[k + 1] = c
    BY <1>1, <2>2, <2>4, <2>6
  <2> QED BY <2>6, <2>7
<1>6. \A i, j \in 1..Len(chunks) : piece[i] = piece[j] => i = j
  <2> SUFFICES ASSUME NEW i \in 1..Len(chunks), NEW j \in 1..Len(chunks), piece[i] = piece[j]
               PROVE  i = j
    OBVIOUS
  <2>1. chunks[i][1] = chunks[j][1]
    BY <1>3
  <2>2. chunks[i] \in Nat \X Nat /\ chunks[j] \in Nat \X Nat
    BY DEF WalkInv, CutInOrder, ChunkInv, ChunkTypes
  <2>3. /\ i < j => chunks[i][1] < chunks[j][1]
        /\ j < i => chunks[j][1] < chunks[i][1]
    <3>1. DOMAIN chunks = 1..Len(chunks)
      BY DEF WalkInv, CutInOrder, ChunkInv, ChunkTypes
    <3> QED BY <3>1 DEF WalkInv, CutInOrder, ChunkInv, Spaced
  <2>4. chunks[i][1] \in Nat /\ chunks[j][1] \in Nat
    BY <2>2
  <2> QED BY <2>1, <2>3, <2>4, <1>1
<1> HIDE DEF piece
<1>7. piece \in Bijection(1..Len(chunks), whole)
  <2>1. piece = [i \in 1..Len(chunks) |-> piece[i]]
    BY DEF piece
  <2>2. piece \in [1..Len(chunks) -> whole]
    BY <1>4, <2>1
  <2> QED BY <1>5, <1>6, <2>2 DEF Bijection, Injection, Surjection, IsInjective
<1>8. IsFiniteSet(1..Len(chunks)) /\ Cardinality(1..Len(chunks)) = Len(chunks)
  <2>1. PICK n \in Nat : n = Len(chunks)
    BY <1>1
  <2>2. IsFiniteSet(1..n) /\ Cardinality(1..n) = n
    <3>1. Cardinality(1..n) = IF 1 > n THEN 0 ELSE n - 1 + 1
      BY FS_Interval
    <3> QED BY <3>1, FS_Interval
  <2> QED BY <2>1, <2>2
<1>9. IsFiniteSet(whole) /\ Cardinality(whole) = Len(chunks)
  <2>1. ExistsBijection(1..Len(chunks), whole)
    BY <1>7 DEF ExistsBijection
  <2> QED BY <1>8, <2>1, FS_Bijection
<1>10. \A i \in 1..Len(chunks) : <<current, n_lines>> \o chunks[i] \in whole
  BY <1>4 DEF piece
<1> QED BY <1>9, <1>10

\* A file is indexed when its last chunk is put.
LEMMA IndexedWalk ==
  ASSUME WalkInv, Indexed
  PROVE  WalkInv'
<1>1. /\ current # None /\ done /\ put_count = Len(chunks)
      /\ report' = ApplyIndexed(report, put_count)
      /\ outcome' = [outcome EXCEPT ![current] = "indexed"] /\ current' = None
      /\ UNCHANGED <<tree, store, todo, put_count, running, seen, vars>>
  BY DEF Indexed
<1>2. /\ put_count \in Nat /\ current \in Files /\ outcome[current] = None /\ current \notin todo
      /\ n_lines \in Texts /\ n_lines \in Nat /\ seen[current] = n_lines /\ IsReport(report)
  BY <1>1 DEF WalkInv, WalkTypes, Progress, CutInOrder, ChunkInv, ChunkTypes
<1>3. PICK whole : whole = {c \in store : c[1] = current /\ c[2] = n_lines}
  OBVIOUS
<1>4. /\ IsFiniteSet(whole) /\ Cardinality(whole) = put_count
      /\ \A i \in 1..Len(chunks) : <<current, n_lines>> \o chunks[i] \in whole
  BY <1>1, <1>3, WholeText
<1>5. "indexed" \in Outcomes /\ {"indexed"} \in SUBSET Outcomes /\ {"skipped", "error"} \in SUBSET Outcomes
  BY DEF Outcomes
<1>5a. WalkTypes
  BY DEF WalkInv
<1>5b. PICK o \in Outcomes : o = "indexed"
  BY <1>5
<1>5c. outcome' = [outcome EXCEPT ![current] = o]
  BY <1>1, <1>5b
<1>6. /\ current \notin FilesWith({"indexed"})
      /\ FilesWith({"indexed"})' = FilesWith({"indexed"}) \cup {current}
      /\ Cardinality(FilesWith({"indexed"})) \in Nat
      /\ Cardinality(FilesWith({"indexed"})') = Cardinality(FilesWith({"indexed"})) + 1
  <2>1. PICK S \in SUBSET Outcomes : S = {"indexed"}
    BY <1>5
  <2>2. o \in S
    BY <1>5b, <2>1
  <2>3. /\ current \notin FilesWith(S)
        /\ FilesWith(S)' = FilesWith(S) \cup {current}
        /\ Cardinality(FilesWith(S)) \in Nat
        /\ Cardinality(FilesWith(S)') = Cardinality(FilesWith(S)) + 1
    BY OneConcluded, <1>2, <1>5a, <1>5c, <2>2
  <2> QED BY <2>1, <2>3
<1>7. Cardinality(FilesWith({"skipped", "error"})') = Cardinality(FilesWith({"skipped", "error"}))
  <2>1. PICK S \in SUBSET Outcomes : S = {"skipped", "error"}
    BY <1>5
  <2>2. o \notin S
    BY <1>5b, <2>1
  <2>3. Cardinality(FilesWith(S)') = Cardinality(FilesWith(S))
    BY OneConcluded, <1>2, <1>5a, <1>5c, <2>2
  <2> QED BY <2>1, <2>3
<1>8. IndexedChunks' = IndexedChunks \cup whole
  <2>1. store' = store /\ seen' = seen
    BY <1>1
  <2> QED BY <1>2, <1>3, <1>6, <2>1 DEF IndexedChunks
<1>9. IndexedChunks \cap whole = {}
  BY <1>3, <1>6 DEF IndexedChunks
<1>10. /\ IsFiniteSet(IndexedChunks) /\ Cardinality(IndexedChunks) \in Nat
       /\ report.files_visited = report.files_indexed + report.files_skipped
       /\ report.files_indexed = Cardinality(FilesWith({"indexed"}))
       /\ report.files_skipped = Cardinality(FilesWith({"skipped", "error"}))
       /\ report.chunks_put = Cardinality(IndexedChunks)
  BY FS_CardinalityType DEF WalkInv, Counted, CountersAddUp, IndexedChunks
<1>11. /\ IsFiniteSet(IndexedChunks')
       /\ Cardinality(IndexedChunks') = Cardinality(IndexedChunks) + put_count
  <2>1. PICK a : a = IndexedChunks
    OBVIOUS
  <2>2. /\ IsFiniteSet(a \cup whole)
        /\ Cardinality(a \cup whole) = Cardinality(a) + Cardinality(whole) - Cardinality(a \cap whole)
    BY <1>4, <1>10, <2>1, FS_Union
  <2>3. Cardinality(a \cap whole) = 0
    BY <1>9, <2>1, FS_EmptySet
  <2> QED BY <1>2, <1>4, <1>8, <1>10, <2>1, <2>2, <2>3
<1>12. /\ IsReport(report')
       /\ report'.files_visited = report.files_visited + 1
       /\ report'.files_indexed = report.files_indexed + 1
       /\ report'.files_skipped = report.files_skipped
       /\ report'.chunks_put = report.chunks_put + put_count
       /\ report'.errors = report.errors
  BY ReportEffects, <1>1, <1>2
<1>13. Counted'
  <2>1. /\ report.files_visited \in Nat /\ report.files_skipped \in Nat /\ report.files_indexed \in Nat
    BY <1>2 DEF IsReport
  <2>2. /\ report'.files_visited = report'.files_indexed + report'.files_skipped
        /\ report'.files_indexed = Cardinality(FilesWith({"indexed"})')
        /\ report'.files_skipped = Cardinality(FilesWith({"skipped", "error"})')
        /\ report'.chunks_put = Cardinality(IndexedChunks')
    BY <1>6, <1>7, <1>10, <1>11, <1>12, <2>1
  <2> QED BY <1>11, <2>2 DEF Counted, CountersAddUp, IndexedChunks
<1>14. CutInOrder' /\ StoreOfCuts'
  BY CutsRest, StoreRests, <1>1 DEF WalkInv, vars
<1>15. WalkTypes'
  <2>1. outcome' \in [Files -> Outcomes \cup {None}]
    BY <1>1, <1>2, <1>5 DEF WalkInv, WalkTypes
  <2> QED BY <1>1, <1>12, <2>1 DEF WalkInv, WalkTypes, IsReport
<1>16. \A g \in Files : outcome'[g] = IF g = current THEN "indexed" ELSE outcome[g]
  BY <1>1 DEF WalkInv, WalkTypes
<1>17. Untouched' /\ Progress'
  BY <1>1, <1>2, <1>16 DEF WalkInv, WalkTypes, Untouched, Progress
<1>18. Answered'
  <2>1. \A g : Named(g)' <=> Named(g)
    BY <1>12 DEF Named
  <2> QED BY <1>1, <1>16, <2>1 DEF WalkInv, Answered
<1>19. IndexedWhole'
  <2>1. \A g, l : Held(g, l)' <=> Held(g, l)
    BY <1>1 DEF Held
  <2>2. ASSUME NEW l \in 0..n_lines - 1 PROVE Held(current, l)
    <3>1. PICK i \in 1..Len(chunks) : chunks[i][1] <= l /\ l < chunks[i][2]
      <4>1. DOMAIN chunks = 1..Len(chunks)
        BY DEF WalkInv, CutInOrder, ChunkInv, ChunkTypes
      <4> QED BY <1>1, <1>2, <2>2, <4>1 DEF WalkInv, CutInOrder, ChunkInv, Coverage
    <3>2. PICK a, b : chunks[i] = <<a, b>>
      BY <1>1 DEF WalkInv, CutInOrder, Cut
    <3>3. PICK c : c = <<current, n_lines>> \o chunks[i]
      OBVIOUS
    <3>4. c = <<current, n_lines, a, b>>
      BY <3>2, <3>3, PieceShape
    <3>5. c \in store
      BY <1>3, <1>4, <3>3
    <3> QED BY <1>2, <3>1, <3>2, <3>4, <3>5 DEF Held
  <2>3. seen'[current] = n_lines /\ seen' = seen
    BY <1>1, <1>2
  <2> QED BY <1>2, <1>6, <2>1, <2>2, <2>3 DEF WalkInv, IndexedWhole
<1> QED BY <1>13, <1>14, <1>15, <1>17, <1>18, <1>19 DEF WalkInv

\* A chunk that is refused ends its file with an error.
LEMMA ChunkFailsWalk ==
  ASSUME WalkInv, ChunkFails
  PROVE  WalkInv'
<1>1. /\ current # None /\ report' = ApplyError(report, current)
      /\ outcome' = [outcome EXCEPT ![current] = "error"] /\ current' = None /\ put_count' = 0
      /\ UNCHANGED <<tree, store, todo, running, seen, vars>>
  BY DEF ChunkFails
<1>2. /\ current \in Files /\ outcome[current] = None /\ current \notin todo /\ IsReport(report)
      /\ report.errors \in Seq(Files \cup {"walk_error"})
      /\ report.files_visited \in Nat /\ report.files_skipped \in Nat
  BY <1>1 DEF WalkInv, WalkTypes, Progress, IsReport
<1>3. /\ IsReport(report')
      /\ report'.files_visited = report.files_visited + 1
      /\ report'.files_indexed = report.files_indexed
      /\ report'.files_skipped = report.files_skipped + 1
      /\ report'.chunks_put = report.chunks_put
      /\ report'.errors = Append(report.errors, current)
  <2>1. PICK q : q = ApplyError(report, current)
    OBVIOUS
  <2>2. /\ IsReport(q)
        /\ q.files_visited = report.files_visited + 1
        /\ q.files_indexed = report.files_indexed
        /\ q.files_skipped = report.files_skipped + 1
        /\ q.chunks_put = report.chunks_put
        /\ q.errors = Append(report.errors, current)
    BY ReportEffects, <1>2, <2>1
  <2> QED BY <1>1, <2>1, <2>2
<1>4. Counted' /\ FilesWith({"indexed"})' = FilesWith({"indexed"})
  <2>1. WalkTypes /\ Counted
    BY DEF WalkInv
  <2> QED BY <1>1, <1>2, <1>3, <2>1, NotIndexedCounted
<1>5. CutInOrder' /\ StoreOfCuts'
  BY CutsRest, StoreRests, <1>1 DEF WalkInv, vars
<1>6. WalkTypes'
  <2>1. outcome' \in [Files -> Outcomes \cup {None}]
    BY <1>1, <1>2 DEF WalkInv, WalkTypes, Outcomes
  <2> QED BY <1>1, <1>3, <2>1 DEF WalkInv, WalkTypes, IsReport
<1>7. \A g \in Files : g # current => outcome'[g] = outcome[g]
  BY <1>1 DEF WalkInv, WalkTypes
<1>8. Untouched' /\ Progress'
  BY <1>1, <1>2, <1>7 DEF WalkInv, WalkTypes, Untouched, Progress
<1>9. IndexedWhole'
  BY <1>1, <1>4 DEF WalkInv, IndexedWhole, Held
<1>10. Answered'
  <2>1. \A g : Named(g) => Named(g)'
    BY <1>2, <1>3, NamedStays
  <2>4. PICK h : h = current
    OBVIOUS
  <2>2. Named(h)'
    <3>1. PICK e \in Seq(Files \cup {"walk_error"}) : e = report.errors
      BY <1>2
    <3>2. PICK E : E = Files \cup {"walk_error"}
      OBVIOUS
    <3>4. e \in Seq(E) /\ current \in E
      BY <1>2, <3>1, <3>2
    <3>5. Len(Append(e, current)) = Len(e) + 1 /\ Append(e, current)[Len(e) + 1] = current
      BY <3>4, AppendProperties
    <3>6. Append(e, current) \in Seq(E) /\ Len(e) \in Nat
      BY <3>4, AppendProperties, LenProperties
    <3>7. Len(e) + 1 \in DOMAIN Append(e, current)
      BY <3>5, <3>6, LenProperties
    <3>3. \E i \in DOMAIN report'.errors : report'.errors[i] = h
      BY <1>3, <2>4, <3>1, <3>5, <3>7
    <3> QED BY <3>3 DEF Named
  <2> SUFFICES ASSUME NEW g \in Files, seen'[g] # None
               PROVE  outcome'[g] = "indexed" \/ Named(g)'
    BY DEF Answered
  <2>3. g # current => outcome[g] = "indexed" \/ Named(g)
    BY <1>1 DEF WalkInv, Answered
  <2>5. CASE g = h
    BY <2>2, <2>5
  <2>6. CASE g # h
    <3>1. outcome'[g] = outcome[g]
      BY <1>7, <2>4, <2>6
    <3>2. CASE Named(g)
      BY <2>1, <3>2
    <3> QED BY <2>3, <2>4, <2>6, <3>1, <3>2
  <2> QED BY <2>5, <2>6
<1> QED BY <1>4, <1>5, <1>6, <1>8, <1>9, <1>10 DEF WalkInv

\* A run ends, and other programs write.
LEMMA RestWalk ==
  ASSUME WalkInv, UNCHANGED <<store, todo, current, put_count, report, seen, outcome, vars>>,
         tree' \in [Files -> FileStates], running' = running \/ current = None
  PROVE  WalkInv'
<1>1. CutInOrder' /\ StoreOfCuts'
  BY CutsRest, StoreRests DEF WalkInv, vars
<1>2. WalkTypes' /\ Untouched' /\ Answered'
  BY DEF WalkInv, WalkTypes, Untouched, Answered, Named, IsReport
<1>3. Progress'
  BY DEF WalkInv, Progress, vars
<1>4. Counted' /\ IndexedWhole'
  BY CountRests DEF WalkInv
<1> QED BY <1>1, <1>2, <1>3, <1>4 DEF WalkInv

\* Every step of a walk, and of those who change its files.
LEMMA NextWalk == WalkInv /\ [WalkNext]_<<walkVars, vars>> => WalkInv'
<1> SUFFICES ASSUME WalkInv, [WalkNext]_<<walkVars, vars>> PROVE WalkInv'
  OBVIOUS
<1>1. CASE Start
  BY <1>1, StartWalk
<1>2. ASSUME NEW f \in Files, WalkError(f) \/ Skip(f) \/ Miss(f) \/ Read(f) PROVE WalkInv'
  BY <1>2, WalkErrorWalk, SkipWalk, MissWalk, ReadWalk
<1>3. CASE Chunk \/ PutChunk \/ Indexed \/ ChunkFails
  BY <1>3, ChunkWalk, PutChunkWalk, IndexedWalk, ChunkFailsWalk
<1>4. CASE Finish
  BY <1>4, RestWalk DEF Finish, WalkInv, WalkTypes
<1>5. ASSUME NEW f \in Files, NEW s \in FileStates, Edit(f, s) PROVE WalkInv'
  <2>1. tree' \in [Files -> FileStates]
    BY <1>5 DEF Edit, WalkInv, WalkTypes
  <2> QED BY <1>5, <2>1, RestWalk DEF Edit
<1>6. CASE UNCHANGED <<walkVars, vars>>
  <2>1. tree' \in [Files -> FileStates]
    BY <1>6 DEF walkVars, WalkInv, WalkTypes
  <2> QED BY <1>6, <2>1, RestWalk DEF walkVars
<1> QED BY <1>1, <1>2, <1>3, <1>4, <1>5, <1>6 DEF WalkNext, Walk

\* What holds of the report follows.
LEMMA WalkGivesReport == WalkInv => ReportInv
<1> SUFFICES ASSUME WalkInv PROVE ReportInv
  OBVIOUS
<1>1. CountersAddUp
  BY DEF WalkInv, Counted
<1>2. NoSilentFailure
  <2> SUFFICES ASSUME NEW f \in Files, seen[f] # None, ~running
               PROVE  \/ \A l \in 0..seen[f] - 1 : Held(f, l)
                      \/ Named(f)
    BY DEF NoSilentFailure, Held, Named
  <2>1. outcome[f] = "indexed" \/ Named(f)
    <3>1. current = None /\ f # current
      BY IndexAssumption DEF WalkInv, Progress
    <3> QED BY <3>1 DEF WalkInv, Answered
  <2>2. outcome[f] = "indexed" => f \in FilesWith({"indexed"})
    BY DEF FilesWith
  <2> QED BY <2>1, <2>2 DEF WalkInv, IndexedWhole
<1>3. TypeOK
  <2>1. \A c \in store : c[1] \in Files /\ c[2] \in Texts /\ c[3] < c[4]
    <3> SUFFICES ASSUME NEW c \in store PROVE c[1] \in Files /\ c[2] \in Texts /\ c[3] < c[4]
      OBVIOUS
    <3>1. PICK f \in Files, u \in Texts : \E k \in CutAt(u) : c = <<f, u>> \o Cut(u, k)
      BY DEF WalkInv, StoreOfCuts
    <3>2. PICK k \in CutAt(u) : c = <<f, u>> \o Cut(u, k)
      BY <3>1
    <3>3. PICK a, b : Cut(u, k) = <<a, b>> /\ a = k * Step /\ b = (IF a + window < u THEN a + window ELSE u)
      BY DEF Cut
    <3>4. c = <<f, u, a, b>>
      <4>1. Cut(u, k) = <<a, b>>
        BY <3>3
      <4> QED BY <3>2, <4>1, PieceShape
    <3>5. a < b
      <4>1. /\ Step \in Nat /\ Step <= window /\ window \in Nat /\ window > 0 /\ u \in Nat
        BY TextsAreNat DEF WalkInv, CutInOrder, ChunkInv, ChunkTypes, Step
      <4>2. k \in Nat /\ u > 0 /\ (k > 0 => (k - 1) * Step + window < u)
        BY DEF CutAt
      <4>3. a \in Nat /\ (k > 0 => a = (k - 1) * Step + Step) /\ (k = 0 => a = 0)
        BY <3>3, <4>1, <4>2
      <4>4. a < u
        <5>1. CASE k = 0
          BY <4>1, <4>2, <4>3, <5>1
        <5>2. CASE k > 0
          <6>1. PICK m \in Int : m = (k - 1) * Step
            BY <4>1, <4>2, <5>2
          <6> QED BY <4>1, <4>2, <4>3, <5>2, <6>1
        <5> QED BY <4>2, <5>1, <5>2
      <4> QED BY <3>3, <4>1, <4>3, <4>4
    <3> QED BY <3>4, <3>5
  <2>2. \A k \in {"files_visited", "files_indexed", "files_skipped"} : report[k] \in 0..Cardinality(Files)
    <3>1. PICK a, b : a = FilesWith({"indexed"}) /\ b = FilesWith({"skipped", "error"})
      OBVIOUS
    <3>2. a \cap b = {} /\ a \cup b \in SUBSET Files /\ a \in SUBSET Files /\ b \in SUBSET Files
      BY <3>1 DEF FilesWith
    <3>3. /\ IsFiniteSet(a) /\ IsFiniteSet(b) /\ Cardinality(a \cup b) <= Cardinality(Files)
      BY <3>2, FS_Subset, IndexAssumption
    <3>4. Cardinality(a \cup b) = Cardinality(a) + Cardinality(b) - Cardinality(a \cap b)
      BY <3>3, FS_Union
    <3>5. /\ Cardinality(a \cap b) = 0 /\ Cardinality(a) \in Nat /\ Cardinality(b) \in Nat
          /\ Cardinality(Files) \in Nat
      BY <3>2, <3>3, FS_EmptySet, FS_CardinalityType, IndexAssumption
    <3>6. Cardinality(a) + Cardinality(b) <= Cardinality(Files)
      BY <3>3, <3>4, <3>5
    <3>7. /\ report.files_visited = report.files_indexed + report.files_skipped
          /\ report.files_indexed = Cardinality(a)
          /\ report.files_skipped = Cardinality(b)
      BY <1>1, <3>1 DEF CountersAddUp
    <3> QED BY <3>5, <3>6, <3>7
  <2>3. current # None => running /\ put_count \in 0..Len(chunks)
    BY DEF WalkInv, WalkTypes, Progress, CutInOrder, ChunkInv, ChunkTypes
  <2> QED BY <2>1, <2>2, <2>3 DEF WalkInv, WalkTypes, TypeOK
<1> QED BY <1>1, <1>2, <1>3 DEF ReportInv

\* Whatever files come and go, whatever fails, and however often the directory
\* is walked: the report of index_directory adds up and hides no lost text.
THEOREM ReportIsHonest == WalkSpec => []ReportInv
<1>1. WalkInit => WalkInv
  BY InitWalk
<1> QED BY <1>1, NextWalk, WalkGivesReport, PTL DEF WalkSpec
=============================================================================
