--------------------------- MODULE ExecOutputProofs ---------------------------
(* Proofs about the output of a command: the limit of both streams, what is *)
(* relayed against what is stored, and what is stored against the text.     *)
EXTENDS ExecOutput, RedactionProofs

-----------------------------------------------------------------------------
(* Sequences.                                                               *)

(* Kept, place by place.                                                    *)
IsKept(kept, entries, places) ==
    \A n \in 0 .. Len(entries) :
        kept[n] = IF n = 0 THEN <<>>
                  ELSE IF n \in places THEN Append(kept[n - 1], entries[n])
                       ELSE kept[n - 1]

Ranks(entries) == [n \in 0 .. Len(entries) |-> n]
Before(entries) == [n \in 0 .. Len(entries) |-> n - 1]
Nothing(entries) == [n \in 0 .. Len(entries) |-> <<>>]
KeepOne(entries, places, E) ==
    [n \in 0 .. Len(entries) |->
        [kept \in Seq(E) |-> IF n \in places /\ n # 0 THEN Append(kept, entries[n])
                             ELSE kept]]

LEMMA KeptTables ==
    ASSUME NEW E, NEW entries \in Seq(E), NEW places
    PROVE  Tables(0 .. Len(entries), Seq(E), Len(entries), Ranks(entries),
                  Before(entries), Nothing(entries), KeepOne(entries, places, E))
<1>1. Len(entries) \in Nat
    OBVIOUS
<1>2. Ranks(entries) \in [0 .. Len(entries) -> 0 .. Len(entries)]
    BY DEF Ranks
<1>3. Nothing(entries) \in [0 .. Len(entries) -> Seq(E)]
    BY DEF Nothing
<1>4. ASSUME NEW n \in 0 .. Len(entries), Ranks(entries)[n] # 0
      PROVE  /\ Before(entries)[n] \in 0 .. Len(entries)
             /\ Ranks(entries)[Before(entries)[n]] < Ranks(entries)[n]
    <2>1. n # 0 /\ n - 1 \in 0 .. Len(entries)
        BY <1>1, <1>4 DEF Ranks
    <2> QED
        BY <1>1, <2>1 DEF Ranks, Before
<1>5. KeepOne(entries, places, E) \in [0 .. Len(entries) -> [Seq(E) -> Seq(E)]]
    <2>1. ASSUME NEW n \in 0 .. Len(entries), NEW kept \in Seq(E)
          PROVE  (IF n \in places /\ n # 0 THEN Append(kept, entries[n])
                  ELSE kept) \in Seq(E)
        <3>1. n # 0 => entries[n] \in E
            BY <1>1
        <3> QED
            BY <3>1
    <2> QED
        BY <2>1 DEF KeepOne
<1> QED
    BY <1>1, <1>2, <1>3, <1>4, <1>5 DEF Tables

LEMMA KeptComputed ==
    ASSUME NEW E, NEW entries \in Seq(E), NEW places, NEW kept,
           IsKept(kept, entries, places)
    PROVE  Computes(kept, 0 .. Len(entries), Seq(E), Ranks(entries),
                    Before(entries), Nothing(entries), KeepOne(entries, places, E))
<1>1. Len(entries) \in Nat
    OBVIOUS
<1>2. ASSUME NEW n \in 0 .. Len(entries), Ranks(entries)[n] = 0
      PROVE  kept[n] = Nothing(entries)[n]
    <2>1. n = 0
        BY <1>2 DEF Ranks
    <2> QED
        BY <1>2, <2>1 DEF IsKept, Nothing
<1>3. ASSUME NEW n \in 0 .. Len(entries), Ranks(entries)[n] # 0,
             kept[Before(entries)[n]] \in Seq(E)
      PROVE  kept[n] = KeepOne(entries, places, E)[n][kept[Before(entries)[n]]]
    <2> DEFINE before == kept[n - 1]
    <2>1. n # 0 /\ Before(entries)[n] = n - 1
        BY <1>3 DEF Ranks, Before
    <2>2. before \in Seq(E)
        BY <1>3, <2>1
    <2>3. kept[n] = IF n \in places THEN Append(before, entries[n]) ELSE before
        BY <2>1 DEF IsKept
    <2> HIDE DEF before
    <2>4. KeepOne(entries, places, E)[n][before]
            = IF n \in places THEN Append(before, entries[n]) ELSE before
        BY <2>1, <2>2 DEF KeepOne
    <2> QED
        BY <2>1, <2>3, <2>4 DEF before
<1> QED
    BY <1>2, <1>3 DEF Computes

LEMMA KeptExists ==
    ASSUME NEW E, NEW entries \in Seq(E), NEW places
    PROVE  \E kept \in [0 .. Len(entries) -> Seq(E)] : IsKept(kept, entries, places)
<1>1. PICK f \in [0 .. Len(entries) -> Seq(E)] :
         Computes(f, 0 .. Len(entries), Seq(E), Ranks(entries),
                  Before(entries), Nothing(entries), KeepOne(entries, places, E))
    BY KeptTables, FunctionExists
<1>2. Len(entries) \in Nat
    OBVIOUS
<1>3. ASSUME NEW n \in 0 .. Len(entries)
      PROVE  f[n] = IF n = 0 THEN <<>>
                    ELSE IF n \in places THEN Append(f[n - 1], entries[n])
                         ELSE f[n - 1]
    <2>1. CASE n = 0
        BY <1>1, <2>1 DEF Computes, Ranks, Nothing
    <2>2. CASE n # 0
        <3> DEFINE before == f[n - 1]
        <3>1. n - 1 \in 0 .. Len(entries) /\ Ranks(entries)[n] # 0
            BY <1>2, <2>2 DEF Ranks
        <3>2. before \in Seq(E) /\ Before(entries)[n] = n - 1
            BY <1>1, <3>1 DEF Before
        <3>3. f[n] = KeepOne(entries, places, E)[n][before]
            BY <1>1, <3>1, <3>2 DEF Computes
        <3> HIDE DEF before
        <3>4. f[n] = IF n \in places THEN Append(before, entries[n]) ELSE before
            BY <2>2, <3>2, <3>3 DEF KeepOne
        <3> QED
            BY <2>2, <3>4 DEF before
    <2> QED
        BY <2>1, <2>2
<1> QED
    BY <1>3 DEF IsKept

LEMMA KeptUnfolds ==
    ASSUME NEW E, NEW entries \in Seq(E), NEW places
    PROVE  \E kept \in [0 .. Len(entries) -> Seq(E)] :
              /\ IsKept(kept, entries, places)
              /\ Kept(entries, places) = kept[Len(entries)]
<1> DEFINE kept == CHOOSE kept :
              kept = [n \in 0 .. Len(entries) |->
                  IF n = 0 THEN <<>>
                  ELSE IF n \in places THEN Append(kept[n - 1], entries[n])
                       ELSE kept[n - 1]]
<1>1. PICK f \in [0 .. Len(entries) -> Seq(E)] : IsKept(f, entries, places)
    BY KeptExists
<1>2. f = [n \in 0 .. Len(entries) |->
                  IF n = 0 THEN <<>>
                  ELSE IF n \in places THEN Append(f[n - 1], entries[n])
                       ELSE f[n - 1]]
    BY <1>1 DEF IsKept
<1>3. kept = [n \in 0 .. Len(entries) |->
                  IF n = 0 THEN <<>>
                  ELSE IF n \in places THEN Append(kept[n - 1], entries[n])
                       ELSE kept[n - 1]]
    BY <1>2
<1>4. Kept(entries, places) = kept[Len(entries)]
    BY DEF Kept
<1> HIDE DEF kept
<1>5. IsKept(kept, entries, places)
    BY <1>3 DEF IsKept
<1>6. \A n \in 0 .. Len(entries) : kept[n] \in Seq(E)
    BY <1>5, KeptComputed, KeptTables, FunctionTyped
<1>7. kept \in [0 .. Len(entries) -> Seq(E)]
    BY <1>3, <1>6
<1> QED
    BY <1>4, <1>5, <1>7

LEMMA KeptType ==
    ASSUME NEW E, NEW entries \in Seq(E), NEW places
    PROVE  Kept(entries, places) \in Seq(E)
<1>1. PICK kept \in [0 .. Len(entries) -> Seq(E)] :
         Kept(entries, places) = kept[Len(entries)]
    BY KeptUnfolds
<1> QED
    BY <1>1

LEMMA KeptEmpty == ASSUME NEW places PROVE Kept(<<>>, places) = <<>>
<1> DEFINE entries == <<>>
<1>1. entries \in Seq({}) /\ Len(entries) = 0
    OBVIOUS
<1> HIDE DEF entries
<1>2. PICK kept \in [0 .. Len(entries) -> Seq({})] :
         IsKept(kept, entries, places) /\ Kept(entries, places) = kept[Len(entries)]
    BY <1>1, KeptUnfolds
<1>3. kept[0] = <<>>
    BY <1>1, <1>2 DEF IsKept
<1> QED
    BY <1>1, <1>2, <1>3 DEF entries

(* One more entry is kept or not.                                           *)
LEMMA KeptAppend ==
    ASSUME NEW E, NEW entries \in Seq(E), NEW e \in E, NEW now, NEW then,
           \A i \in 1 .. Len(entries) : i \in then <=> i \in now
    PROVE  Kept(Append(entries, e), then)
             = IF Len(entries) + 1 \in then THEN Append(Kept(entries, now), e)
               ELSE Kept(entries, now)
<1> DEFINE more == Append(entries, e)
           n == Len(entries)
<1>1. /\ more \in Seq(E) /\ Len(more) = n + 1 /\ n \in Nat
      /\ \A i \in 1 .. n : more[i] = entries[i]
      /\ more[n + 1] = e
    BY AppendProperties
<1> HIDE DEF more
<1>2. PICK f \in [0 .. Len(more) -> Seq(E)] :
         IsKept(f, more, then) /\ Kept(more, then) = f[Len(more)]
    BY <1>1, KeptUnfolds
<1>3. PICK g \in [0 .. n -> Seq(E)] :
         IsKept(g, entries, now) /\ Kept(entries, now) = g[n]
    BY KeptUnfolds
<1>4. IsKept(f, entries, now)
    <2>1. ASSUME NEW m \in 0 .. n
          PROVE  f[m] = IF m = 0 THEN <<>>
                        ELSE IF m \in now THEN Append(f[m - 1], entries[m])
                             ELSE f[m - 1]
        <3>1. m \in 0 .. Len(more)
            BY <1>1
        <3>2. f[m] = IF m = 0 THEN <<>>
                     ELSE IF m \in then THEN Append(f[m - 1], more[m])
                          ELSE f[m - 1]
            BY <1>2, <3>1 DEF IsKept
        <3>3. CASE m = 0
            BY <3>2, <3>3
        <3>4. CASE m # 0
            <4>1. m \in 1 .. Len(entries)
                BY <1>1, <3>4
            <4>2. (m \in then <=> m \in now) /\ more[m] = entries[m]
                BY <1>1, <4>1
            <4> QED
                BY <3>2, <3>4, <4>2
        <3> QED
            BY <3>3, <3>4
    <2> QED
        BY <2>1 DEF IsKept
<1>5. f[n] = g[n]
    <2>1. /\ Computes(f, 0 .. n, Seq(E), Ranks(entries), Before(entries),
                      Nothing(entries), KeepOne(entries, now, E))
          /\ Computes(g, 0 .. n, Seq(E), Ranks(entries), Before(entries),
                      Nothing(entries), KeepOne(entries, now, E))
        BY <1>3, <1>4, KeptComputed
    <2>2. Tables(0 .. n, Seq(E), n, Ranks(entries), Before(entries),
                 Nothing(entries), KeepOne(entries, now, E))
        BY KeptTables
    <2>3. n \in 0 .. n
        BY <1>1
    <2> QED
        BY <2>1, <2>2, <2>3, FunctionUnique
<1>6. f[n + 1] = IF n + 1 \in then THEN Append(f[n], e) ELSE f[n]
    <2>1. PICK m \in 0 .. Len(more) : m = n + 1 /\ m # 0 /\ m - 1 = n
        BY <1>1
    <2>2. f[m] = IF m = 0 THEN <<>>
                 ELSE IF m \in then THEN Append(f[m - 1], more[m]) ELSE f[m - 1]
        BY <1>2 DEF IsKept
    <2>3. m = n + 1 /\ m - 1 = n /\ more[m] = e
        BY <1>1, <2>1
    <2> HIDE DEF n
    <2> QED
        BY <2>1, <2>2, <2>3
<1> QED
    BY <1>1, <1>2, <1>3, <1>5, <1>6 DEF more

(* FlattenSeq, sequence by sequence.                                        *)
IsFlat(flat, seqs) ==
    \A i \in 1 .. Len(seqs) :
        flat[i] = IF i = 1 THEN seqs[i] ELSE flat[i - 1] \o seqs[i]

FlatRank(seqs) == [i \in 1 .. Len(seqs) |-> i - 1]
FlatBefore(seqs) == [i \in 1 .. Len(seqs) |-> i - 1]
Add(seqs, B) == [i \in 1 .. Len(seqs) |-> [flat \in Seq(B) |-> flat \o seqs[i]]]

LEMMA FlatTables ==
    ASSUME NEW B, NEW seqs \in Seq(Seq(B))
    PROVE  Tables(1 .. Len(seqs), Seq(B), Len(seqs), FlatRank(seqs),
                  FlatBefore(seqs), seqs, Add(seqs, B))
<1>1. Len(seqs) \in Nat /\ seqs \in [1 .. Len(seqs) -> Seq(B)]
    OBVIOUS
<1>2. FlatRank(seqs) \in [1 .. Len(seqs) -> 0 .. Len(seqs)]
    BY <1>1 DEF FlatRank
<1>3. ASSUME NEW i \in 1 .. Len(seqs), FlatRank(seqs)[i] # 0
      PROVE  /\ FlatBefore(seqs)[i] \in 1 .. Len(seqs)
             /\ FlatRank(seqs)[FlatBefore(seqs)[i]] < FlatRank(seqs)[i]
    <2>1. i - 1 \in 1 .. Len(seqs)
        BY <1>1, <1>3 DEF FlatRank
    <2> QED
        BY <1>1, <2>1 DEF FlatRank, FlatBefore
<1>4. Add(seqs, B) \in [1 .. Len(seqs) -> [Seq(B) -> Seq(B)]]
    <2>1. \A i \in 1 .. Len(seqs), flat \in Seq(B) : flat \o seqs[i] \in Seq(B)
        BY <1>1, ConcatProperties
    <2> QED
        BY <2>1 DEF Add
<1> QED
    BY <1>1, <1>2, <1>3, <1>4 DEF Tables

LEMMA FlatComputed ==
    ASSUME NEW B, NEW seqs \in Seq(Seq(B)), NEW flat, IsFlat(flat, seqs)
    PROVE  Computes(flat, 1 .. Len(seqs), Seq(B), FlatRank(seqs),
                    FlatBefore(seqs), seqs, Add(seqs, B))
<1>1. Len(seqs) \in Nat
    OBVIOUS
<1>2. ASSUME NEW i \in 1 .. Len(seqs), FlatRank(seqs)[i] = 0
      PROVE  flat[i] = seqs[i]
    <2>1. i = 1
        BY <1>1, <1>2 DEF FlatRank
    <2> QED
        BY <1>2, <2>1 DEF IsFlat
<1>3. ASSUME NEW i \in 1 .. Len(seqs), FlatRank(seqs)[i] # 0,
             flat[FlatBefore(seqs)[i]] \in Seq(B)
      PROVE  flat[i] = Add(seqs, B)[i][flat[FlatBefore(seqs)[i]]]
    <2> DEFINE before == flat[i - 1]
    <2>1. i # 1 /\ FlatBefore(seqs)[i] = i - 1
        BY <1>1, <1>3 DEF FlatRank, FlatBefore
    <2>2. before \in Seq(B)
        BY <1>3, <2>1
    <2>3. flat[i] = before \o seqs[i]
        BY <2>1 DEF IsFlat
    <2> HIDE DEF before
    <2>4. Add(seqs, B)[i][before] = before \o seqs[i]
        BY <2>2 DEF Add
    <2> QED
        BY <2>1, <2>3, <2>4 DEF before
<1> QED
    BY <1>2, <1>3 DEF Computes

LEMMA FlatExists ==
    ASSUME NEW B, NEW seqs \in Seq(Seq(B))
    PROVE  \E flat \in [1 .. Len(seqs) -> Seq(B)] : IsFlat(flat, seqs)
<1>1. PICK f \in [1 .. Len(seqs) -> Seq(B)] :
         Computes(f, 1 .. Len(seqs), Seq(B), FlatRank(seqs),
                  FlatBefore(seqs), seqs, Add(seqs, B))
    BY FlatTables, FunctionExists
<1>2. Len(seqs) \in Nat
    OBVIOUS
<1>3. ASSUME NEW i \in 1 .. Len(seqs)
      PROVE  f[i] = IF i = 1 THEN seqs[i] ELSE f[i - 1] \o seqs[i]
    <2>1. CASE i = 1
        BY <1>1, <2>1, SMTT(60) DEF Computes, FlatRank
    <2>2. CASE i # 1
        <3> DEFINE before == f[i - 1]
        <3>1. i - 1 \in 1 .. Len(seqs) /\ FlatRank(seqs)[i] # 0
            BY <1>2, <2>2 DEF FlatRank
        <3>2. before \in Seq(B) /\ FlatBefore(seqs)[i] = i - 1
            BY <1>1, <3>1 DEF FlatBefore
        <3>3. f[i] = Add(seqs, B)[i][before]
            BY <1>1, <3>1, <3>2 DEF Computes
        <3> HIDE DEF before
        <3>4. f[i] = before \o seqs[i]
            BY <3>2, <3>3 DEF Add
        <3> QED
            BY <2>2, <3>4 DEF before
    <2> QED
        BY <2>1, <2>2
<1> QED
    BY <1>3 DEF IsFlat

LEMMA FlatUnique ==
    ASSUME NEW B, NEW seqs \in Seq(Seq(B)), NEW f, NEW g,
           IsFlat(f, seqs), IsFlat(g, seqs)
    PROVE  \A i \in 1 .. Len(seqs) : f[i] = g[i]
<1>1. Computes(f, 1 .. Len(seqs), Seq(B), FlatRank(seqs),
               FlatBefore(seqs), seqs, Add(seqs, B))
    BY FlatComputed
<1>2. Computes(g, 1 .. Len(seqs), Seq(B), FlatRank(seqs),
               FlatBefore(seqs), seqs, Add(seqs, B))
    BY FlatComputed
<1>3. Tables(1 .. Len(seqs), Seq(B), Len(seqs), FlatRank(seqs),
             FlatBefore(seqs), seqs, Add(seqs, B))
    BY FlatTables
<1> QED
    BY <1>1, <1>2, <1>3, FunctionUnique

LEMMA FlattenUnfolds ==
    ASSUME NEW B, NEW seqs \in Seq(Seq(B)), Len(seqs) # 0
    PROVE  \E flat \in [1 .. Len(seqs) -> Seq(B)] :
              IsFlat(flat, seqs) /\ FlattenSeq(seqs) = flat[Len(seqs)]
<1> DEFINE flat == CHOOSE flat :
              flat = [i \in 1 .. Len(seqs) |->
                         IF i = 1 THEN seqs[i] ELSE flat[i - 1] \o seqs[i]]
<1>1. PICK f \in [1 .. Len(seqs) -> Seq(B)] : IsFlat(f, seqs)
    BY FlatExists
<1>2. f = [i \in 1 .. Len(seqs) |->
                         IF i = 1 THEN seqs[i] ELSE f[i - 1] \o seqs[i]]
    BY <1>1 DEF IsFlat
<1>3. flat = [i \in 1 .. Len(seqs) |->
                         IF i = 1 THEN seqs[i] ELSE flat[i - 1] \o seqs[i]]
    BY <1>2
<1>4. FlattenSeq(seqs) = flat[Len(seqs)]
    BY DEF FlattenSeq
<1> HIDE DEF flat
<1>5. IsFlat(flat, seqs)
    BY <1>3 DEF IsFlat
<1>6. \A i \in 1 .. Len(seqs) : flat[i] \in Seq(B)
    BY <1>5, FlatComputed, FlatTables, FunctionTyped
<1>7. flat \in [1 .. Len(seqs) -> Seq(B)]
    BY <1>3, <1>6
<1> QED
    BY <1>4, <1>5, <1>7

LEMMA FlattenEmpty == FlattenSeq(<<>>) = <<>>
    BY DEF FlattenSeq

LEMMA FlattenType ==
    ASSUME NEW B, NEW seqs \in Seq(Seq(B))
    PROVE  FlattenSeq(seqs) \in Seq(B)
<1>1. CASE Len(seqs) = 0
    <2>1. FlattenSeq(seqs) = seqs /\ seqs = <<>>
        BY <1>1 DEF FlattenSeq
    <2> QED
        BY <2>1
<1>2. CASE Len(seqs) # 0
    <2>1. PICK flat \in [1 .. Len(seqs) -> Seq(B)] : FlattenSeq(seqs) = flat[Len(seqs)]
        BY <1>2, FlattenUnfolds
    <2>2. Len(seqs) \in 1 .. Len(seqs)
        BY <1>2
    <2> QED
        BY <2>1, <2>2
<1> QED
    BY <1>1, <1>2

(* One more sequence is added at the end.                                   *)
LEMMA FlattenAppend ==
    ASSUME NEW B, NEW seqs \in Seq(Seq(B)), NEW last \in Seq(B)
    PROVE  FlattenSeq(Append(seqs, last)) = FlattenSeq(seqs) \o last
<1> DEFINE more == Append(seqs, last)
<1>1. /\ more \in Seq(Seq(B)) /\ Len(more) = Len(seqs) + 1 /\ Len(seqs) \in Nat
      /\ \A i \in 1 .. Len(seqs) : more[i] = seqs[i]
      /\ more[Len(seqs) + 1] = last
    BY AppendProperties
<1> HIDE DEF more
<1>2. PICK f \in [1 .. Len(more) -> Seq(B)] :
         IsFlat(f, more) /\ FlattenSeq(more) = f[Len(more)]
    BY <1>1, FlattenUnfolds
<1>3. CASE Len(seqs) = 0
    <2>1. 1 \in 1 .. Len(more) /\ Len(more) = 1 /\ more[1] = last
        BY <1>1, <1>3
    <2>2. FlattenSeq(more) = last
        BY <1>2, <2>1 DEF IsFlat
    <2>3. FlattenSeq(seqs) = <<>>
        BY <1>3, FlattenEmpty
    <2> QED
        BY <2>2, <2>3, ConcatEmptySeq DEF more
<1>4. CASE Len(seqs) # 0
    <2>1. PICK g \in [1 .. Len(seqs) -> Seq(B)] :
             IsFlat(g, seqs) /\ FlattenSeq(seqs) = g[Len(seqs)]
        BY <1>4, FlattenUnfolds
    <2>2. IsFlat(f, seqs)
        <3>1. ASSUME NEW i \in 1 .. Len(seqs)
              PROVE  f[i] = IF i = 1 THEN seqs[i] ELSE f[i - 1] \o seqs[i]
            <4>1. i \in 1 .. Len(more) /\ more[i] = seqs[i]
                BY <1>1
            <4> QED
                BY <1>2, <4>1 DEF IsFlat
        <3> QED
            BY <3>1 DEF IsFlat
    <2>3. f[Len(seqs)] = g[Len(seqs)]
        <3>1. Len(seqs) \in 1 .. Len(seqs)
            BY <1>1, <1>4
        <3>2. \A u, v : IsFlat(u, seqs) /\ IsFlat(v, seqs)
                 => \A i \in 1 .. Len(seqs) : u[i] = v[i]
            BY FlatUnique
        <3>3. IsFlat(f, seqs) /\ IsFlat(g, seqs)
            BY <2>1, <2>2
        <3>4. \A i \in 1 .. Len(seqs) : f[i] = g[i]
            BY <3>2, <3>3
        <3> QED
            BY <3>1, <3>4
    <2>4. f[Len(seqs) + 1] = f[Len(seqs)] \o last
        <3>1. PICK m \in 1 .. Len(more) : m = Len(seqs) + 1 /\ m # 1 /\ m - 1 = Len(seqs)
            BY <1>1, <1>4
        <3>2. f[m] = f[m - 1] \o more[m]
            BY <1>2, <3>1 DEF IsFlat
        <3> QED
            BY <1>1, <3>1, <3>2
    <2> QED
        BY <1>1, <1>2, <2>1, <2>3, <2>4 DEF more
<1> QED
    BY <1>3, <1>4

-----------------------------------------------------------------------------
(* The redactors of a stream.                                               *)

AsOne(held, data, rest, secret, now) ==
    Redact(held \o (data \o rest), secret)
      = now.out \o Redact(now.held \o rest, secret)

(* One redactor: what it has passed on and what it would make of the rest   *)
(* are what it would have made of all.                                      *)
LEMMA PassedOn ==
    ASSUME NEW B, NEW held \in Seq(B), NEW data \in Seq(B), NEW rest \in Seq(B),
           NEW secret \in Seq(B), Alphabet(B)
    PROVE  LET now == Passed(held, data, secret, FALSE) IN
           /\ now.out \in Seq(B) /\ now.held \in Seq(B) /\ now.failed \in Seq(B)
           /\ Borderless(secret) => AsOne(held, data, rest, secret, now)
<1> DEFINE all == held \o data
           n == FlushLen(all, secret)
           out == Redact(SubSeq(all, 1, n), secret)
           kept == SubSeq(all, n + 1, Len(all))
<1>1. all \in Seq(B)
    BY ConcatProperties
<1>2. Passed(held, data, secret, FALSE) = [out |-> out, held |-> kept, failed |-> all]
    BY DEF Passed
<1>3. held \o (data \o rest) = all \o rest
    BY ConcatAssociative
<1> HIDE DEF all
<1>4. n \in 0 .. Len(all)
    BY <1>1, FlushLenType
<1>5. Borderless(secret) =>
         Redact(all \o rest, secret) = out \o Redact(kept \o rest, secret)
    <2>1. Borderless(secret) => SplitsAt(all, rest, n, secret)
        BY <1>1, FlushedForGood
    <2> QED
        BY <2>1 DEF SplitsAt
<1> HIDE DEF n
<1>6. SubSeq(all, 1, n) \in Seq(B) /\ kept \in Seq(B)
    BY <1>1, <1>4, PartsOf
<1>7. out \in Seq(B)
    BY <1>6, RedactType
<1> HIDE DEF out, kept
<1> DEFINE now == Passed(held, data, secret, FALSE)
<1>8. now.out = out /\ now.held = kept /\ now.failed = all
    <2>1. PICK r : r = now
        OBVIOUS
    <2>2. r = [out |-> out, held |-> kept, failed |-> all]
        BY <1>2, <2>1
    <2>3. r.out = out /\ r.held = kept /\ r.failed = all
        BY <2>2
    <2> HIDE DEF now
    <2> QED
        BY <2>1, <2>3
<1> HIDE DEF now
<1>9. /\ now.out \in Seq(B) /\ now.held \in Seq(B) /\ now.failed \in Seq(B)
      /\ Borderless(secret) => AsOne(held, data, rest, secret, now)
    BY <1>1, <1>3, <1>5, <1>6, <1>7, <1>8 DEF AsOne
<1> QED
    BY <1>9 DEF now

(* A redactor that is closed gives up what it holds.                        *)
LEMMA PassedLast ==
    ASSUME NEW B, NEW held \in Seq(B), NEW secret \in Seq(B), Alphabet(B)
    PROVE  LET now == Passed(held, <<>>, secret, TRUE) IN
           /\ now.out = Redact(held, secret) /\ now.out \in Seq(B)
           /\ now.held = <<>> /\ now.failed = <<>>
<1> DEFINE all == held \o <<>>
<1>1. all = held
    BY ConcatEmptySeq
<1>2. Passed(held, <<>>, secret, TRUE)
        = [out |-> Redact(SubSeq(all, 1, Len(all)), secret),
           held |-> SubSeq(all, Len(all) + 1, Len(all)), failed |-> <<>>]
    BY DEF Passed
<1>3. SubSeq(held, 1, Len(held)) = held
    BY SubSeqFull
<1>4. SubSeq(held, Len(held) + 1, Len(held)) = <<>>
    BY SubSeqEmpty
<1>5. Redact(held, secret) \in Seq(B)
    BY RedactType
<1>6. PICK now : now = Passed(held, <<>>, secret, TRUE)
    OBVIOUS
<1>7. now = [out |-> Redact(held, secret), held |-> <<>>, failed |-> <<>>]
    BY <1>1, <1>2, <1>3, <1>4, <1>6
<1>8. now.out = Redact(held, secret) /\ now.held = <<>> /\ now.failed = <<>>
    BY <1>7
<1> QED
    BY <1>5, <1>6, <1>8

(* The chain of one or two redactors, without its recursion.                *)
Entering(s, data) == [out |-> data, held |-> pending[s], failed |-> pending[s]]

IsDown(down, s, i, data, closing) ==
    \A j \in i - 1 .. Len(secrets) :
        down[j] = IF j = i - 1 THEN Entering(s, data)
                  ELSE Onward(s, down[j - 1], j, closing /\ j = i)

LEMMA ChainUnfolds ==
    ASSUME NEW s, NEW i \in {1, 2}, NEW data, NEW closing, Len(secrets) \in {1, 2}
    PROVE  \E down : /\ IsDown(down, s, i, data, closing)
                     /\ Chain(s, i, data, closing) = down[Len(secrets)]
<1> DEFINE down == CHOOSE down :
              down = [j \in i - 1 .. Len(secrets) |->
                         IF j = i - 1 THEN Entering(s, data)
                         ELSE Onward(s, down[j - 1], j, closing /\ j = i)]
           one == Onward(s, Entering(s, data), i, closing /\ i = i)
           two == Onward(s, one, i + 1, closing /\ i + 1 = i)
           f == [j \in i - 1 .. Len(secrets) |->
                    IF j = i - 1 THEN Entering(s, data)
                    ELSE IF j = i THEN one ELSE two]
<1>1. ASSUME NEW j \in i - 1 .. Len(secrets)
      PROVE  f[j] = IF j = i - 1 THEN Entering(s, data)
                    ELSE Onward(s, f[j - 1], j, closing /\ j = i)
    <2>1. CASE j = i - 1
        BY <2>1
    <2>2. CASE j = i
        <3>1. j - 1 = i - 1 /\ i - 1 \in i - 1 .. Len(secrets) /\ j # i - 1
            BY <2>2
        <3>2. f[i - 1] = Entering(s, data) /\ f[j] = one
            BY <2>2, <3>1
        <3> HIDE DEF f
        <3> QED
            BY <2>2, <3>1, <3>2
    <2>3. CASE j = i + 1
        <3>1. j - 1 = i /\ i \in i - 1 .. Len(secrets) /\ j # i - 1 /\ i # i - 1
              /\ j # i
            BY <2>3
        <3>2. f[i] = one /\ f[j] = two
            BY <3>1
        <3> HIDE DEF f
        <3> QED
            BY <2>3, <3>1, <3>2
    <2> QED
        BY <2>1, <2>2, <2>3
<1>2. f = [j \in i - 1 .. Len(secrets) |->
              IF j = i - 1 THEN Entering(s, data)
              ELSE Onward(s, f[j - 1], j, closing /\ j = i)]
    <2>1. f = [j \in i - 1 .. Len(secrets) |-> f[j]]
        OBVIOUS
    <2> HIDE DEF f
    <2> QED
        BY <1>1, <2>1, Zenon
<1> HIDE DEF f
<1>3. down = [j \in i - 1 .. Len(secrets) |->
                 IF j = i - 1 THEN Entering(s, data)
                 ELSE Onward(s, down[j - 1], j, closing /\ j = i)]
    BY <1>2, Zenon
<1>4. Chain(s, i, data, closing) = down[Len(secrets)]
    BY Zenon DEF Chain, Entering
<1> HIDE DEF down
<1>5. IsDown(down, s, i, data, closing)
    BY <1>3 DEF IsDown
<1> QED
    BY <1>4, <1>5

LEMMA ChainOfOne ==
    ASSUME NEW s, NEW data, NEW closing \in BOOLEAN, Len(secrets) = 1
    PROVE  Chain(s, 1, data, closing) = Onward(s, Entering(s, data), 1, closing)
<1>1. PICK down : IsDown(down, s, 1, data, closing)
                  /\ Chain(s, 1, data, closing) = down[Len(secrets)]
    BY ChainUnfolds
<1>2. 0 \in 1 - 1 .. Len(secrets) /\ 1 \in 1 - 1 .. Len(secrets) /\ 1 - 1 = 0
    OBVIOUS
<1>3. down[0] = Entering(s, data)
    BY <1>1, <1>2 DEF IsDown
<1>4. down[1] = Onward(s, down[0], 1, closing /\ 1 = 1)
    BY <1>1, <1>2 DEF IsDown
<1>5. (closing /\ 1 = 1) = closing
    OBVIOUS
<1> QED
    BY <1>1, <1>3, <1>4, <1>5

LEMMA ChainOfTwo ==
    ASSUME NEW s, NEW data, NEW closing \in BOOLEAN, Len(secrets) = 2
    PROVE  /\ Chain(s, 1, data, closing)
                = Onward(s, Onward(s, Entering(s, data), 1, closing), 2, FALSE)
           /\ Chain(s, 2, data, closing) = Onward(s, Entering(s, data), 2, closing)
<1>1. Chain(s, 1, data, closing)
        = Onward(s, Onward(s, Entering(s, data), 1, closing), 2, FALSE)
    <2>1. PICK down : IsDown(down, s, 1, data, closing)
                      /\ Chain(s, 1, data, closing) = down[Len(secrets)]
        BY ChainUnfolds
    <2>2. /\ 0 \in 1 - 1 .. Len(secrets) /\ 1 \in 1 - 1 .. Len(secrets)
          /\ 2 \in 1 - 1 .. Len(secrets) /\ 1 - 1 = 0 /\ 2 - 1 = 1
        OBVIOUS
    <2>3. down[0] = Entering(s, data)
        BY <2>1, <2>2 DEF IsDown
    <2>4. down[1] = Onward(s, down[0], 1, closing /\ 1 = 1)
        BY <2>1, <2>2 DEF IsDown
    <2>5. down[2] = Onward(s, down[1], 2, closing /\ 2 = 1)
        BY <2>1, <2>2 DEF IsDown
    <2>6. (closing /\ 1 = 1) = closing /\ (closing /\ 2 = 1) = FALSE
        OBVIOUS
    <2> QED
        BY <2>1, <2>3, <2>4, <2>5, <2>6
<1>2. Chain(s, 2, data, closing) = Onward(s, Entering(s, data), 2, closing)
    <2>1. PICK down : IsDown(down, s, 2, data, closing)
                      /\ Chain(s, 2, data, closing) = down[Len(secrets)]
        BY ChainUnfolds
    <2>2. /\ 1 \in 2 - 1 .. Len(secrets) /\ 2 \in 2 - 1 .. Len(secrets)
          /\ 2 - 1 = 1
        OBVIOUS
    <2>3. down[1] = Entering(s, data)
        BY <2>1, <2>2 DEF IsDown
    <2>4. down[2] = Onward(s, down[1], 2, closing /\ 2 = 2)
        BY <2>1, <2>2 DEF IsDown
    <2>5. (closing /\ 2 = 2) = closing
        OBVIOUS
    <2> QED
        BY <2>1, <2>3, <2>4, <2>5
<1> QED
    BY <1>1, <1>2

(* RedactMany for one or two secrets, without its recursion.                *)
LEMMA ManyUnfolds ==
    ASSUME NEW w, NEW list, Len(list) \in {1, 2}
    PROVE  /\ Len(list) = 1 => RedactMany(w, list) = Redact(w, list[1])
           /\ Len(list) = 2 =>
                 RedactMany(w, list) = Redact(Redact(w, list[1]), list[2])
<1> DEFINE after == CHOOSE after :
              after = [i \in 0 .. Len(list) |->
                          IF i = 0 THEN w ELSE Redact(after[i - 1], list[i])]
           one == Redact(w, list[1])
           two == Redact(one, list[2])
           f == [i \in 0 .. Len(list) |->
                    IF i = 0 THEN w ELSE IF i = 1 THEN one ELSE two]
<1>1. ASSUME NEW i \in 0 .. Len(list)
      PROVE  f[i] = IF i = 0 THEN w ELSE Redact(f[i - 1], list[i])
    <2>1. CASE i = 0
        BY <2>1
    <2>2. CASE i = 1
        <3>1. i - 1 = 0 /\ 0 \in 0 .. Len(list) /\ i # 0
            BY <2>2
        <3>2. f[0] = w /\ f[i] = one
            BY <2>2, <3>1
        <3> HIDE DEF f
        <3> QED
            BY <2>2, <3>1, <3>2
    <2>3. CASE i = 2
        <3>1. i - 1 = 1 /\ 1 \in 0 .. Len(list) /\ i # 0
            BY <2>3
        <3>2. f[1] = one /\ f[i] = two
            BY <2>3, <3>1
        <3> HIDE DEF f
        <3> QED
            BY <2>3, <3>1, <3>2
    <2> QED
        BY <2>1, <2>2, <2>3
<1>2. f = [i \in 0 .. Len(list) |->
              IF i = 0 THEN w ELSE Redact(f[i - 1], list[i])]
    <2>1. f = [i \in 0 .. Len(list) |-> f[i]]
        OBVIOUS
    <2> HIDE DEF f
    <2> QED
        BY <1>1, <2>1, Zenon
<1> HIDE DEF f
<1>3. after = [i \in 0 .. Len(list) |->
                 IF i = 0 THEN w ELSE Redact(after[i - 1], list[i])]
    BY <1>2, Zenon
<1>4. RedactMany(w, list) = after[Len(list)]
    BY Zenon DEF RedactMany
<1> HIDE DEF after
<1>5. \A i \in 0 .. Len(list) :
         after[i] = IF i = 0 THEN w ELSE Redact(after[i - 1], list[i])
    BY <1>3
<1>6. after[0] = w
    BY <1>5
<1>7. after[1] = Redact(w, list[1])
    <2>1. 1 \in 0 .. Len(list) /\ 1 # 0 /\ 1 - 1 = 0
        OBVIOUS
    <2> QED
        BY <1>5, <1>6, <2>1
<1>8. CASE Len(list) = 1
    BY <1>4, <1>7, <1>8
<1>9. CASE Len(list) = 2
    <2>1. 2 \in 0 .. Len(list) /\ 2 # 0 /\ 2 - 1 = 1
        BY <1>9
    <2>2. after[2] = Redact(after[1], list[2])
        BY <1>5, <2>1
    <2> QED
        BY <1>4, <1>7, <1>9, <2>2
<1> QED
    BY <1>8, <1>9

(* What the redactors of a stream would pass on of what they hold and of    *)
(* what is to come, were it to come in one piece and they to be closed.     *)
Through(list, held, data) ==
    IF Len(list) = 1 THEN Redact(held[1] \o data, list[1])
    ELSE Redact(held[2] \o Redact(held[1] \o data, list[1]), list[2])

Holding == [DOMAIN secrets -> Seq(Bytes)]

LEMMA SecretsType ==
    ASSUME TypeOK
    PROVE  /\ Alphabet(Bytes)
           /\ Len(secrets) = 1 \/ Len(secrets) = 2
           /\ DOMAIN secrets = 1 .. Len(secrets)
           /\ \A i \in DOMAIN secrets : secrets[i] \in Seq(Bytes)
           /\ 1 \in DOMAIN secrets
           /\ Len(secrets) = 2 => 2 \in DOMAIN secrets
<1>1. secrets \in Seq(Seq(Bytes)) /\ Len(secrets) \in 1 .. 2
    BY TextAssumption DEF TypeOK
<1>2. Alphabet(Bytes)
    BY TextAssumption DEF Alphabet
<1> QED
    BY <1>1, <1>2

LEMMA ThroughNothingHeld ==
    ASSUME TypeOK, NEW held \in Holding, NEW w \in Seq(Bytes),
           \A i \in DOMAIN secrets : held[i] = <<>>
    PROVE  Through(secrets, held, w) = RedactMany(w, secrets)
<1>1. CASE Len(secrets) = 1
    <2>1. held[1] \o w = w
        BY SecretsType, ConcatEmptySeq
    <2> QED
        BY <1>1, <2>1, ManyUnfolds DEF Through
<1>2. CASE Len(secrets) = 2
    <2>1. held[1] = <<>> /\ held[2] = <<>>
        BY <1>2, SecretsType
    <2>2. held[1] \o w = w
        BY <2>1, ConcatEmptySeq
    <2>3. Redact(w, secrets[1]) \in Seq(Bytes)
        BY SecretsType, RedactType
    <2>4. held[2] \o Redact(w, secrets[1]) = Redact(w, secrets[1])
        BY <2>1, <2>3, ConcatEmptySeq
    <2> QED
        BY <1>2, <2>2, <2>4, ManyUnfolds DEF Through
<1> QED
    BY <1>1, <1>2, SecretsType

Flow == [out : Seq(Bytes), held : Holding, failed : Holding]

LEMMA EnteringFlow ==
    ASSUME TypeOK, NEW s \in Streams, NEW data \in Seq(Bytes)
    PROVE  /\ Entering(s, data) \in Flow
           /\ Entering(s, data).out = data
           /\ Entering(s, data).held = pending[s]
<1>1. pending[s] \in Holding
    BY DEF TypeOK, Holding
<1>2. PICK r : r = Entering(s, data)
    OBVIOUS
<1>3. r = [out |-> data, held |-> pending[s], failed |-> pending[s]]
    BY <1>2 DEF Entering
<1>4. r.out = data /\ r.held = pending[s]
    BY <1>3
<1>5. r \in Flow
    <2> HIDE DEF Holding
    <2> QED
        BY <1>1, <1>3 DEF Flow
<1> QED
    BY <1>2, <1>4, <1>5

(* The fields of what goes on from a redactor.                              *)
LEMMA OnwardFields ==
    ASSUME TypeOK, NEW s \in Streams, NEW j \in DOMAIN secrets,
           NEW before \in Flow, NEW closing \in BOOLEAN,
           Passed(pending[s][j], before.out, secrets[j], closing).out \in Seq(Bytes),
           Passed(pending[s][j], before.out, secrets[j], closing).held \in Seq(Bytes),
           Passed(pending[s][j], before.out, secrets[j], closing).failed \in Seq(Bytes)
    PROVE  LET now == Passed(pending[s][j], before.out, secrets[j], closing) IN
           /\ Onward(s, before, j, closing) \in Flow
           /\ Onward(s, before, j, closing).out = now.out
           /\ Onward(s, before, j, closing).held[j] = now.held
           /\ \A i \in DOMAIN secrets \ {j} :
                 Onward(s, before, j, closing).held[i] = before.held[i]
<1> DEFINE now == Passed(pending[s][j], before.out, secrets[j], closing)
<1>0. now.out \in Seq(Bytes) /\ now.held \in Seq(Bytes) /\ now.failed \in Seq(Bytes)
    OBVIOUS
<1>00. Onward(s, before, j, closing)
         = [out |-> now.out,
            held |-> [before.held EXCEPT ![j] = now.held],
            failed |-> [before.failed EXCEPT ![j] = now.failed]]
    BY DEF Onward
<1>000. SUFFICES /\ Onward(s, before, j, closing) \in Flow
           /\ Onward(s, before, j, closing).out = now.out
           /\ Onward(s, before, j, closing).held[j] = now.held
           /\ \A i \in DOMAIN secrets \ {j} :
                 Onward(s, before, j, closing).held[i] = before.held[i]
    OBVIOUS
<1> HIDE DEF now
<1> DEFINE held == [before.held EXCEPT ![j] = now.held]
           failed == [before.failed EXCEPT ![j] = now.failed]
<1>1. before.held \in [DOMAIN secrets -> Seq(Bytes)]
      /\ before.failed \in [DOMAIN secrets -> Seq(Bytes)]
    BY DEF Flow, Holding
<1>2. held \in [DOMAIN secrets -> Seq(Bytes)] /\ failed \in [DOMAIN secrets -> Seq(Bytes)]
      /\ held[j] = now.held
      /\ \A i \in DOMAIN secrets \ {j} : held[i] = before.held[i]
    BY <1>0, <1>1
<1>3. PICK r : r = Onward(s, before, j, closing)
    OBVIOUS
<1>4. r = [out |-> now.out, held |-> held, failed |-> failed]
    BY <1>00, <1>3
<1> HIDE DEF held, failed
<1>5. held \in Holding /\ failed \in Holding
    BY <1>2 DEF Holding
<1>6. r \in Flow
    BY <1>0, <1>4, <1>5 DEF Flow
<1>7. r.out = now.out /\ r.held = held
    BY <1>4
<1> QED
    BY <1>2, <1>3, <1>6, <1>7

(* Redactor j passes on what is decided for good, and the others hold what  *)
(* they held.                                                               *)
PassesOn(s, j, before, now) ==
    /\ now \in Flow
    /\ \A i \in DOMAIN secrets \ {j} : now.held[i] = before.held[i]
    /\ \A rest \in Seq(Bytes) : Borderless(secrets[j]) =>
          Redact(pending[s][j] \o (before.out \o rest), secrets[j])
            = now.out \o Redact(now.held[j] \o rest, secrets[j])

LEMMA OnwardPasses ==
    ASSUME TypeOK, NEW s \in Streams, NEW j \in DOMAIN secrets, NEW before \in Flow
    PROVE  PassesOn(s, j, before, Onward(s, before, j, FALSE))
<1> DEFINE held == pending[s][j]
           data == before.out
           secret == secrets[j]
           now == Passed(held, data, secret, FALSE)
           on == Onward(s, before, j, FALSE)
<1>1. held \in Seq(Bytes) /\ data \in Seq(Bytes) /\ secret \in Seq(Bytes)
      /\ Alphabet(Bytes)
    BY SecretsType DEF TypeOK, Flow
<1> HIDE DEF held, data, secret
<1>2. ASSUME NEW rest \in Seq(Bytes)
      PROVE  /\ now.out \in Seq(Bytes) /\ now.held \in Seq(Bytes)
             /\ now.failed \in Seq(Bytes)
             /\ Borderless(secret) => AsOne(held, data, rest, secret, now)
    BY <1>1, PassedOn
<1>3. now.out \in Seq(Bytes) /\ now.held \in Seq(Bytes) /\ now.failed \in Seq(Bytes)
    <2>1. <<>> \in Seq(Bytes)
        OBVIOUS
    <2> QED
        BY <1>2, <2>1
<1> HIDE DEF now
<1>4. /\ on \in Flow /\ on.out = now.out /\ on.held[j] = now.held
      /\ \A i \in DOMAIN secrets \ {j} : on.held[i] = before.held[i]
    BY <1>3, OnwardFields DEF now, held, data, secret
<1> HIDE DEF on
<1>5. ASSUME NEW rest \in Seq(Bytes), Borderless(secret)
      PROVE  Redact(held \o (data \o rest), secret)
               = on.out \o Redact(on.held[j] \o rest, secret)
    <2>1. AsOne(held, data, rest, secret, now)
        BY <1>2, <1>5
    <2> QED
        BY <1>4, <2>1 DEF AsOne
<1>6. PassesOn(s, j, before, on)
    BY <1>4, <1>5 DEF PassesOn, held, data, secret
<1> QED
    BY <1>6 DEF on

LEMMA OnwardCloses ==
    ASSUME TypeOK, NEW s \in Streams, NEW j \in DOMAIN secrets,
           NEW before \in Flow, before.out = <<>>
    PROVE  /\ Onward(s, before, j, TRUE) \in Flow
           /\ \A i \in DOMAIN secrets \ {j} :
                 Onward(s, before, j, TRUE).held[i] = before.held[i]
           /\ Onward(s, before, j, TRUE).held[j] = <<>>
           /\ Onward(s, before, j, TRUE).out = Redact(pending[s][j], secrets[j])
<1> DEFINE held == pending[s][j]
           secret == secrets[j]
           now == Passed(held, <<>>, secret, TRUE)
<1>1. held \in Seq(Bytes) /\ secret \in Seq(Bytes) /\ Alphabet(Bytes)
    BY SecretsType DEF TypeOK
<1> HIDE DEF held, secret
<1>2. /\ now.out = Redact(held, secret) /\ now.out \in Seq(Bytes)
      /\ now.held = <<>> /\ now.failed = <<>>
    BY <1>1, PassedLast
<1> HIDE DEF now
<1>3. now.held \in Seq(Bytes) /\ now.failed \in Seq(Bytes)
    BY <1>2
<1>4. now = Passed(pending[s][j], before.out, secrets[j], TRUE)
    BY DEF now, held, secret
<1>5. /\ Onward(s, before, j, TRUE) \in Flow
      /\ Onward(s, before, j, TRUE).out = now.out
      /\ Onward(s, before, j, TRUE).held[j] = now.held
      /\ \A i \in DOMAIN secrets \ {j} :
                 Onward(s, before, j, TRUE).held[i] = before.held[i]
    BY <1>2, <1>3, <1>4, OnwardFields
<1> QED
    BY <1>2, <1>5 DEF held, secret

(* A write: what comes out of the chain, and what it would make of the rest *)
(* of the text, are what it would have made of all.                         *)
LEMMA ChainPasses ==
    ASSUME TypeOK, NEW s \in Streams, NEW data \in Seq(Bytes),
           NEW rest \in Seq(Bytes)
    PROVE  /\ Chain(s, 1, data, FALSE) \in Flow
           /\ Separable =>
                 Through(secrets, pending[s], data \o rest)
                   = Chain(s, 1, data, FALSE).out
                       \o Through(secrets, Chain(s, 1, data, FALSE).held, rest)
<1> DEFINE start == Entering(s, data)
           one == Onward(s, start, 1, FALSE)
<1>1. start \in Flow /\ start.out = data /\ start.held = pending[s]
    BY EnteringFlow
<1> HIDE DEF start
<1>2. /\ one \in Flow
      /\ \A i \in DOMAIN secrets \ {1} : one.held[i] = start.held[i]
      /\ \A more \in Seq(Bytes) : Borderless(secrets[1]) =>
            Redact(pending[s][1] \o (start.out \o more), secrets[1])
              = one.out \o Redact(one.held[1] \o more, secrets[1])
    <2>1. 1 \in DOMAIN secrets
        BY SecretsType
    <2>2. PassesOn(s, 1, start, one)
        BY <1>1, <2>1, OnwardPasses
    <2> HIDE DEF one
    <2> QED
        BY <2>2 DEF PassesOn
<1>3. \A i \in DOMAIN secrets : Separable => Borderless(secrets[i])
    BY DEF Separable
<1> HIDE DEF one
<1>4. CASE Len(secrets) = 1
    <2>1. Chain(s, 1, data, FALSE) = one
        BY <1>4, ChainOfOne DEF start, one
    <2> QED
        BY <1>1, <1>2, <1>3, <1>4, <2>1, SecretsType DEF Through
<1>5. CASE Len(secrets) = 2
    <2> DEFINE two == Onward(s, one, 2, FALSE)
               left1 == Redact(one.held[1] \o rest, secrets[1])
    <2>1. Chain(s, 1, data, FALSE) = two
        BY <1>5, ChainOfTwo DEF start, one
    <2>2. one.held[1] \in Seq(Bytes)
        BY <1>2, SecretsType DEF Flow, Holding
    <2>3. left1 \in Seq(Bytes)
        <3>1. one.held[1] \o rest \in Seq(Bytes)
            BY <2>2, ConcatProperties
        <3> QED
            BY <3>1, SecretsType, RedactType
    <2> HIDE DEF left1
    <2>4. /\ two \in Flow
          /\ \A i \in DOMAIN secrets \ {2} : two.held[i] = one.held[i]
          /\ Borderless(secrets[2]) =>
                Redact(pending[s][2] \o (one.out \o left1), secrets[2])
                  = two.out \o Redact(two.held[2] \o left1, secrets[2])
        <3>1. 2 \in DOMAIN secrets
            BY <1>5, SecretsType
        <3>2. PassesOn(s, 2, one, two)
            BY <1>2, <3>1, OnwardPasses
        <3> HIDE DEF two
        <3> QED
            BY <2>3, <3>2 DEF PassesOn
    <2> HIDE DEF two
    <2>5. 1 \in DOMAIN secrets /\ 2 \in DOMAIN secrets
        BY <1>5, SecretsType
    <2>6. two.held[1] = one.held[1]
        BY <2>4, <2>5
    <2>7. ASSUME Separable
          PROVE  Through(secrets, pending[s], data \o rest) = two.out \o Through(secrets, two.held, rest)
        <3>1. Redact(pending[s][1] \o (data \o rest), secrets[1]) = one.out \o left1
            BY <1>1, <1>2, <1>3, <2>5, <2>7 DEF left1
        <3>2. Through(secrets, pending[s], data \o rest)
                = Redact(pending[s][2] \o (one.out \o left1), secrets[2])
            BY <1>5, <3>1 DEF Through
        <3>3. Through(secrets, two.held, rest) = Redact(two.held[2] \o left1, secrets[2])
            BY <1>5, <2>6 DEF Through, left1
        <3> QED
            BY <1>3, <2>4, <2>5, <2>7, <3>2, <3>3
    <2> QED
        BY <2>1, <2>4, <2>7
<1> QED
    BY <1>4, <1>5, SecretsType

(* A redactor is closed: what comes out, and what those after it would make *)
(* of nothing more, are what all would have made of nothing more.           *)
LEMMA ChainCloses ==
    ASSUME TypeOK, NEW s \in Streams, NEW i \in DOMAIN secrets,
           \A j \in 1 .. i - 1 : pending[s][j] = <<>>
    PROVE  /\ Chain(s, i, <<>>, TRUE) \in Flow
           /\ \A j \in 1 .. i : Chain(s, i, <<>>, TRUE).held[j] = <<>>
           /\ Separable =>
                 Through(secrets, pending[s], <<>>)
                   = Chain(s, i, <<>>, TRUE).out
                       \o Through(secrets, Chain(s, i, <<>>, TRUE).held, <<>>)
<1> DEFINE start == Entering(s, <<>>)
           one == Onward(s, start, i, TRUE)
           E == <<>>
<1>0. E \in Seq(Bytes) /\ E = <<>>
    OBVIOUS
<1>e. E \in Seq(Bytes)
    OBVIOUS
<1>1. start \in Flow /\ start.out = <<>> /\ start.held = pending[s]
    BY <1>0, EnteringFlow
<1> HIDE DEF start
<1>2. /\ one \in Flow
      /\ \A j \in DOMAIN secrets \ {i} : one.held[j] = start.held[j]
      /\ one.held[i] = <<>>
      /\ one.out = Redact(pending[s][i], secrets[i])
    BY <1>1, OnwardCloses
<1> HIDE DEF one
<1>3. /\ DOMAIN secrets = 1 .. Len(secrets) /\ Alphabet(Bytes)
      /\ 1 \in DOMAIN secrets /\ (Len(secrets) = 2 => 2 \in DOMAIN secrets)
      /\ \A j \in DOMAIN secrets : secrets[j] \in Seq(Bytes)
      /\ \A j \in DOMAIN secrets : pending[s][j] \in Seq(Bytes)
      /\ \A j \in DOMAIN secrets : Separable => Borderless(secrets[j])
    BY SecretsType DEF TypeOK, Separable
<1>4. \A j \in DOMAIN secrets : Redact(E, secrets[j]) = E
    BY <1>0, <1>3, RedactEmpty
<1>5. one.out \in Seq(Bytes)
    BY <1>2 DEF Flow
<1>6. \A w \in Seq(Bytes) : w \o E = w /\ E \o w = w
    BY <1>0, ConcatEmptySeq
<1>7. \A j \in DOMAIN secrets : one.held[j] \in Seq(Bytes)
    BY <1>2 DEF Flow, Holding
<1>8. CASE Len(secrets) = 1
    <2>1. i = 1
        BY <1>3, <1>8
    <2>2. Chain(s, i, E, TRUE) = one
        BY <1>8, <2>1, ChainOfOne DEF start, one
    <2>3. \A j \in 1 .. i : one.held[j] = E
        BY <1>2, <2>1
    <2>4. Through(secrets, pending[s], E) = one.out
        <3>1. pending[s][1] \o E = pending[s][1]
            BY <1>3, <1>6
        <3> QED
            BY <1>2, <1>8, <2>1, <3>1 DEF Through
    <2>5. Through(secrets, one.held, E) = E
        <3>1. one.held[1] \o E = E
            BY <1>0, <1>6, <2>1, <2>3
        <3> QED
            BY <1>3, <1>4, <1>8, <3>1 DEF Through
    <2> HIDE DEF E
    <2>6. Through(secrets, pending[s], E) = one.out \o Through(secrets, one.held, E)
        BY <1>5, <1>6, <2>4, <2>5
    <2> QED
        BY <1>0, <1>2, <2>2, <2>3, <2>6
<1>9. CASE Len(secrets) = 2 /\ i = 1
    <2> DEFINE two == Onward(s, one, 2, FALSE)
    <2>1. Chain(s, 1, E, TRUE) = two
        BY <1>9, ChainOfTwo DEF start, one
    <2> HIDE DEF E
    <2>b. one \in Flow /\ 2 \in DOMAIN secrets
        BY <1>2, <1>3, <1>9
    <2>a. PassesOn(s, 2, one, two)
        BY <2>b, OnwardPasses
    <2>2. /\ two \in Flow
          /\ \A j \in DOMAIN secrets \ {2} : two.held[j] = one.held[j]
          /\ Borderless(secrets[2]) =>
                Redact(pending[s][2] \o (one.out \o E), secrets[2])
                  = two.out \o Redact(two.held[2] \o E, secrets[2])
        <3> HIDE DEF two
        <3> QED
            BY <1>e, <2>a DEF PassesOn
    <2> HIDE DEF two
    <2>3. two.held[1] = E
        BY <1>0, <1>2, <1>3, <1>9, <2>2
    <2>4. Through(secrets, pending[s], E) = Redact(pending[s][2] \o (one.out \o E), secrets[2])
        <3>1. pending[s][1] \o E = pending[s][1]
            BY <1>3, <1>6
        <3>2. one.out \o E = one.out
            BY <1>5, <1>6
        <3>3. one.out = Redact(pending[s][1] \o E, secrets[1])
            BY <1>2, <1>9, <3>1
        <3> QED
            BY <1>9, <3>2, <3>3 DEF Through
    <2>5. Through(secrets, two.held, E) = Redact(two.held[2] \o E, secrets[2])
        <3>1. two.held[1] \o E = E
            BY <1>0, <1>6, <2>3
        <3>2. Redact(two.held[1] \o E, secrets[1]) = E
            BY <1>3, <1>4, <3>1
        <3> QED
            BY <1>9, <3>2 DEF Through
    <2>6. Separable =>
             Through(secrets, pending[s], E) = two.out \o Through(secrets, two.held, E)
        BY <1>3, <1>9, <2>2, <2>4, <2>5
    <2>7. \A j \in 1 .. i : two.held[j] = E
        BY <1>9, <2>3
    <2> QED
        BY <1>0, <1>9, <2>1, <2>2, <2>6, <2>7
<1>10. CASE Len(secrets) = 2 /\ i = 2
    <2>1. Chain(s, 2, E, TRUE) = one
        BY <1>10, ChainOfTwo DEF start, one
    <2>2. pending[s][1] = E
        BY <1>10
    <2>3. one.held[1] = E /\ one.held[2] = E
        BY <1>1, <1>2, <1>3, <1>10, <2>2
    <2> HIDE DEF E
    <2>4. Through(secrets, pending[s], E) = one.out
        <3>1. Redact(pending[s][1] \o E, secrets[1]) = E
            BY <1>0, <1>3, <1>4, <1>6, <2>2
        <3>2. pending[s][2] \o E = pending[s][2]
            BY <1>3, <1>6, <1>10
        <3> QED
            BY <1>2, <1>10, <3>1, <3>2 DEF Through
    <2>5. Through(secrets, one.held, E) = E
        <3>1. E \o E = E
            BY <1>0, <1>6
        <3>2. Redact(one.held[1] \o E, secrets[1]) = E
            BY <1>3, <1>4, <2>3, <3>1
        <3>3. Redact(one.held[2] \o E, secrets[2]) = E
            BY <1>3, <1>4, <1>10, <2>3, <3>1
        <3> QED
            BY <1>10, <3>2, <3>3 DEF Through
    <2>6. Through(secrets, pending[s], E) = one.out \o Through(secrets, one.held, E)
        BY <1>5, <1>6, <2>4, <2>5
    <2>7. \A j \in 1 .. i : one.held[j] = E
        BY <1>10, <2>3
    <2> QED
        BY <1>0, <1>2, <1>10, <2>1, <2>6, <2>7
<1> QED
    <2>1. i = 1 \/ i = 2
        BY <1>3, SecretsType
    <2> QED
        BY <1>8, <1>9, <1>10, <2>1, SecretsType

-----------------------------------------------------------------------------
(* Type correctness.                                                        *)

Standing == {"idle", "append", "relay", "mark"}

LEMMA PiecesType ==
    ASSUME TypeOK, NEW s \in Streams
    PROVE  /\ Piece(s) \in Seq(Bytes) /\ NextPieces(s) \in Seq(Bytes)
           /\ Piece(s) \o NextPieces(s) = todo[s]
           /\ todo[s] # <<>> => Len(Piece(s)) # 0
           /\ Len(Piece(s)) <= PieceSize
<1> DEFINE whole == todo[s]
           n == IF Len(whole) < PieceSize THEN Len(whole) ELSE PieceSize
<1>1. whole \in Seq(Bytes) /\ PieceSize \in Nat \ {0}
    BY OutputAssumption DEF TypeOK
<1>2. Piece(s) = SubSeq(whole, 1, n) /\ NextPieces(s) = SubSeq(whole, PieceSize + 1, Len(whole))
    BY DEF Piece, NextPieces
<1>3. whole # <<>> => Len(whole) # 0
    BY <1>1, EmptySeq
<1> HIDE DEF whole
<1>4. n \in 0 .. Len(whole) /\ n <= PieceSize /\ (Len(whole) # 0 => n # 0)
    BY <1>1
<1>5. SubSeq(whole, n + 1, Len(whole)) = SubSeq(whole, PieceSize + 1, Len(whole))
    <2>1. CASE Len(whole) < PieceSize
        <3>1. n = Len(whole)
            BY <2>1
        <3> HIDE DEF n
        <3>2. SubSeq(whole, n + 1, Len(whole)) = <<>>
            BY <1>1, <3>1, SubSeqEmpty
        <3>3. SubSeq(whole, PieceSize + 1, Len(whole)) = <<>>
            BY <1>1, <2>1, SubSeqEmpty
        <3> QED
            BY <3>2, <3>3
    <2>2. CASE ~(Len(whole) < PieceSize)
        BY <2>2
    <2> QED
        BY <2>1, <2>2
<1> HIDE DEF n
<1>6. /\ SubSeq(whole, 1, n) \in Seq(Bytes) /\ Len(SubSeq(whole, 1, n)) = n
      /\ SubSeq(whole, n + 1, Len(whole)) \in Seq(Bytes)
      /\ whole = SubSeq(whole, 1, n) \o SubSeq(whole, n + 1, Len(whole))
    <2>1. \A x \in Seq(Bytes), m \in Nat : m \in 0 .. Len(x) =>
             /\ SubSeq(x, 1, m) \in Seq(Bytes) /\ Len(SubSeq(x, 1, m)) = m
             /\ SubSeq(x, m + 1, Len(x)) \in Seq(Bytes)
             /\ x = SubSeq(x, 1, m) \o SubSeq(x, m + 1, Len(x))
        BY PartsOf, ZenonT(60)
    <2>2. n \in Nat
        BY <1>1, <1>4
    <2> QED
        BY <1>1, <1>4, <2>1, <2>2
<1> QED
    BY <1>2, <1>3, <1>4, <1>5, <1>6 DEF whole

LEMMA FrameType ==
    ASSUME NEW data \in Seq(Bytes)
    PROVE  /\ Frame(data) \in Seq(Bytes \cup {Broken}) /\ Len(Frame(data)) = Len(data)
           /\ Frame(data) \in Seq(Bytes \cup {Marker, Broken})
           /\ Frame(data) # <<Marker>>
<1>1. DOMAIN data = 1 .. Len(data) /\ Len(data) \in Nat
      /\ \A i \in DOMAIN data : data[i] \in Bytes
    OBVIOUS
<1>2. \A i \in DOMAIN data : Frame(data)[i] \in Bytes \cup {Broken}
    BY <1>1 DEF Frame
<1>3. DOMAIN Frame(data) = 1 .. Len(data) /\ Frame(data) = [i \in 1 .. Len(data) |-> Frame(data)[i]]
    BY <1>1 DEF Frame
<1> DEFINE frame == Frame(data)
<1> HIDE DEF frame
<1>4. frame \in Seq(Bytes \cup {Broken}) /\ Len(frame) = Len(data)
    <2>1. frame \in [1 .. Len(data) -> Bytes \cup {Broken}]
        BY <1>1, <1>2, <1>3 DEF frame
    <2>2. frame \in Seq(Bytes \cup {Broken})
        BY <1>1, <2>1, IsASeq
    <2> QED
        BY <1>1, <2>1, <2>2, LenProperties
<1>5. frame # <<Marker>>
    <2>1. SUFFICES ASSUME frame = <<Marker>> PROVE FALSE
        OBVIOUS
    <2>2. Len(frame) = 1 /\ frame[1] = Marker
        BY <2>1
    <2>3. 1 \in DOMAIN data
        BY <1>1, <1>4, <2>2
    <2> QED
        BY <1>2, <2>2, <2>3, TextAssumption DEF frame
<1>6. frame \in Seq(Bytes \cup {Marker, Broken})
    BY <1>4
<1> QED
    BY <1>4, <1>5, <1>6 DEF frame

LEMMA WriteType ==
    ASSUME TypeOK, NEW s \in Streams, NEW down \in Flow, Write(s, down)
    PROVE  /\ trimmed' \in [Streams -> Holding]
           /\ pending' \in [Streams -> Holding]
           /\ broken' \in [Streams -> BOOLEAN]
           /\ todo' \in [Streams -> Seq(Bytes)]
           /\ at' \in [Streams -> Standing]
<1> HIDE DEF Holding
<1>1. /\ pending \in [Streams -> Holding] /\ trimmed \in [Streams -> Holding]
      /\ broken \in [Streams -> BOOLEAN] /\ todo \in [Streams -> Seq(Bytes)]
      /\ at \in [Streams -> Standing]
    BY DEF TypeOK, Holding, Standing
<1>2. down.held \in Holding /\ down.failed \in Holding /\ down.out \in Seq(Bytes)
    BY DEF Flow
<1>3. trimmed' \in [Streams -> Holding] /\ pending' \in [Streams -> Holding]
    BY <1>1, <1>2 DEF Write
<1>4. CASE down.out = <<>> \/ err[s]
    BY <1>1, <1>3, <1>4 DEF Write
<1>5. CASE ~(down.out = <<>> \/ err[s])
    <2>1. todo' = [todo EXCEPT ![s] = down.out] /\ at' = [at EXCEPT ![s] = "append"]
          /\ broken' = broken
        BY <1>5 DEF Write
    <2>2. "append" \in Standing
        BY DEF Standing
    <2> QED
        BY <1>1, <1>2, <1>3, <2>1, <2>2
<1> QED
    BY <1>4, <1>5

LEMMA ContinueType ==
    ASSUME TypeOK, NEW s \in Streams, Continue(s)
    PROVE  /\ pending' \in [Streams -> Holding]
           /\ todo' \in [Streams -> Seq(Bytes)]
           /\ at' \in [Streams -> Standing]
<1> HIDE DEF Holding
<1>1. /\ pending \in [Streams -> Holding] /\ trimmed \in [Streams -> Holding]
      /\ todo \in [Streams -> Seq(Bytes)] /\ at \in [Streams -> Standing]
    BY DEF TypeOK, Holding, Standing
<1>2. NextPieces(s) \in Seq(Bytes)
    BY PiecesType
<1>3. "idle" \in Standing /\ "append" \in Standing
    BY DEF Standing
<1>4. todo' \in [Streams -> Seq(Bytes)]
    BY <1>1, <1>2 DEF Continue
<1>5. CASE NextPieces(s) = <<>>
    BY <1>1, <1>3, <1>4, <1>5 DEF Continue
<1>6. CASE NextPieces(s) # <<>>
    BY <1>1, <1>3, <1>4, <1>6 DEF Continue
<1> QED
    BY <1>5, <1>6

LEMMA FailType ==
    ASSUME TypeOK, NEW s \in Streams, Fail(s)
    PROVE  /\ err' \in [Streams -> BOOLEAN] /\ broken' \in [Streams -> BOOLEAN]
           /\ todo' \in [Streams -> Seq(Bytes)]
           /\ at' \in [Streams -> Standing]
<1>1. <<>> \in Seq(Bytes) /\ "idle" \in Standing
    BY DEF Standing
<1> QED
    BY <1>1 DEF TypeOK, Fail, Standing

LEMMA InitType ==
    ASSUME Init PROVE TypeOK
<1>1. /\ \A s \in Streams : text[s] \in TextsOf[s]
      /\ \A s \in Streams : Len(text[s]) \in Nat
      /\ <<>> \in Seq(Bytes)
      /\ secrets \in SecretLists /\ limit \in Limits
    BY TextAssumption DEF Init
<1>2. /\ emitted \in [Streams -> Nat]
      /\ \A s \in Streams : emitted[s] <= Len(text[s])
    BY <1>1 DEF Init
<1>3. pending \in [Streams -> [DOMAIN secrets -> Seq(Bytes)]] /\ trimmed = pending
    BY <1>1 DEF Init
<1>4. process = "running" /\ closed = 0 /\ result = "none" /\ left = FALSE
      /\ cancelled = FALSE
      /\ rows \in Seq([stream : Streams, data : Seq(Bytes), truncated : BOOLEAN])
      /\ sent \in Seq([stream : Streams, data : Seq(Bytes \cup {Marker, Broken})])
    BY DEF Init
<1>5. /\ broken \in [Streams -> BOOLEAN] /\ truncated \in [Streams -> BOOLEAN]
      /\ err \in [Streams -> BOOLEAN] /\ marked \in [Streams -> BOOLEAN]
      /\ at \in [Streams -> {"idle", "append", "relay", "mark"}]
      /\ todo \in [Streams -> Seq(Bytes)] /\ stored \in [Streams -> Seq(Bytes)]
    BY <1>1 DEF Init
<1>6. closed \in 0 .. Len(Closings)
    BY <1>4 DEF Closings
<1> QED
    BY <1>1, <1>2, <1>3, <1>4, <1>5, <1>6 DEF TypeOK

LEMMA EmitFlow ==
    ASSUME TypeOK, NEW s \in Streams, Emit(s)
    PROVE  \E n \in 1 .. MaxWrite :
              LET data == SubSeq(text[s], emitted[s] + 1, emitted[s] + n)
                  down == Chain(s, 1, data, FALSE)
              IN  /\ emitted[s] + n <= Len(text[s])
                  /\ emitted' = [emitted EXCEPT ![s] = @ + n]
                  /\ data \in Seq(Bytes) /\ down \in Flow /\ Write(s, down)
<1>1. PICK n \in 1 .. MaxWrite :
          /\ emitted[s] + n <= Len(text[s])
          /\ emitted' = [emitted EXCEPT ![s] = @ + n]
          /\ Write(s, Chain(s, 1, SubSeq(text[s], emitted[s] + 1, emitted[s] + n),
                            FALSE))
    BY DEF Emit
<1> DEFINE data == SubSeq(text[s], emitted[s] + 1, emitted[s] + n)
           down == Chain(s, 1, data, FALSE)
<1>2. n \in Nat /\ emitted[s] \in Nat /\ text[s] \in Seq(Bytes)
    BY OutputAssumption, TextAssumption DEF TypeOK
<1>3. data \in Seq(Bytes)
    BY <1>1, <1>2, SubSeqProperties
<1>4. down \in Flow
    <2> HIDE DEF data
    <2>1. <<>> \in Seq(Bytes)
        OBVIOUS
    <2> QED
        BY <1>3, <2>1, ChainPasses
<1> QED
    BY <1>1, <1>3, <1>4

LEMMA EmitType ==
    ASSUME TypeOK, NEW s \in Streams, Emit(s) PROVE TypeOK'
<1>1. PICK n \in 1 .. MaxWrite :
          /\ emitted[s] + n <= Len(text[s])
          /\ emitted' = [emitted EXCEPT ![s] = @ + n]
          /\ \E down \in Flow : Write(s, down)
    BY EmitFlow
<1>2. PICK down \in Flow : Write(s, down)
    BY <1>1
<1>3. /\ trimmed' \in [Streams -> Holding]
      /\ pending' \in [Streams -> Holding]
      /\ broken' \in [Streams -> BOOLEAN]
      /\ todo' \in [Streams -> Seq(Bytes)]
      /\ at' \in [Streams -> Standing]
    BY <1>2, WriteType
<1>4. /\ emitted' \in [Streams -> Nat]
      /\ \A r \in Streams : emitted'[r] <= Len(text[r])
    <2>1. emitted \in [Streams -> Nat]
          /\ \A r \in Streams : emitted[r] <= Len(text[r])
          /\ n \in Nat
        BY OutputAssumption DEF TypeOK
    <2> QED
        BY <1>1, <2>1
<1> QED
    BY <1>3, <1>4 DEF TypeOK, Emit, Holding, Standing, inputVars

(* What AppendOutput makes of the piece.                                    *)
DataStored(s) ==
    IF Len(Piece(s)) > limit - Used THEN SubSeq(Piece(s), 1, limit - Used)
    ELSE Piece(s)

Row == [stream : Streams, data : Seq(Bytes), truncated : BOOLEAN]

LEMMA JoinedType ==
    ASSUME NEW entries \in Seq(Row)
    PROVE  /\ Joined(entries) \in Seq(Bytes) /\ Len(Joined(entries)) \in Nat
           /\ \A r \in Row : Joined(Append(entries, r)) = Joined(entries) \o r.data
<1> DEFINE datas(e) == [i \in DOMAIN e |-> e[i].data]
<1>1. ASSUME NEW e \in Seq(Row)
      PROVE  datas(e) \in Seq(Seq(Bytes)) /\ Len(datas(e)) = Len(e)
    <2>1. Len(e) \in Nat /\ DOMAIN e = 1 .. Len(e)
        OBVIOUS
    <2>2. \A i \in 1 .. Len(e) : e[i].data \in Seq(Bytes)
        <3>1. \A i \in 1 .. Len(e) : e[i] \in Row
            BY <2>1
        <3>2. \A r \in Row : r.data \in Seq(Bytes)
            BY DEF Row
        <3> QED
            BY <3>1, <3>2
    <2>3. datas(e) \in [1 .. Len(e) -> Seq(Bytes)]
        BY <2>1, <2>2
    <2> HIDE DEF datas
    <2> QED
        BY <2>1, <2>3, IsASeq, LenProperties
<1>2. Joined(entries) \in Seq(Bytes)
    <2> HIDE DEF datas
    <2>1. FlattenSeq(datas(entries)) \in Seq(Bytes)
        BY <1>1, FlattenType
    <2> QED
        BY <2>1 DEF Joined, datas
<1>3. ASSUME NEW r \in Row
      PROVE  Joined(Append(entries, r)) = Joined(entries) \o r.data
    <2> DEFINE more == Append(entries, r)
               n == Len(entries)
    <2>1. /\ more \in Seq(Row) /\ Len(more) = n + 1 /\ n \in Nat
          /\ \A i \in 1 .. n : more[i] = entries[i]
          /\ more[n + 1] = r
        BY AppendProperties
    <2> HIDE DEF more
    <2>2. DOMAIN more = 1 .. n + 1 /\ DOMAIN entries = 1 .. n
        BY <2>1
    <2>3. r.data \in Seq(Bytes)
        BY DEF Row
    <2>4. datas(more) = Append(datas(entries), r.data)
        <3> DEFINE a == datas(more)
                   b == Append(datas(entries), r.data)
        <3>1. a \in Seq(Seq(Bytes)) /\ Len(a) = n + 1
            BY <1>1, <2>1
        <3>2. /\ b \in Seq(Seq(Bytes)) /\ Len(b) = n + 1
              /\ \A i \in 1 .. n : b[i] = datas(entries)[i]
              /\ b[n + 1] = r.data
            <4>1. datas(entries) \in Seq(Seq(Bytes)) /\ Len(datas(entries)) = n
                BY <1>1
            <4> HIDE DEF datas, n
            <4> QED
                BY <2>3, <4>1, AppendProperties
        <3>3. \A i \in 1 .. n : a[i] = b[i]
            BY <2>1, <2>2, <3>2
        <3>4. a[n + 1] = b[n + 1]
            BY <2>1, <2>2, <3>2
        <3> HIDE DEF a, b
        <3>5. \A i \in 1 .. Len(a) : a[i] = b[i]
            BY <2>1, <3>1, <3>3, <3>4
        <3>6. a = b
            BY <3>1, <3>2, <3>5, SeqEqual
        <3> QED
            BY <3>6 DEF a, b
    <2>5. FlattenSeq(datas(more)) = FlattenSeq(datas(entries)) \o r.data
        <3>1. datas(entries) \in Seq(Seq(Bytes))
            BY <1>1
        <3> HIDE DEF datas
        <3> QED
            BY <2>3, <2>4, <3>1, FlattenAppend
    <2> QED
        BY <2>5 DEF Joined, more
<1> QED
    BY <1>2, <1>3

LEMMA UsedType ==
    ASSUME TypeOK PROVE rows \in Seq(Row) /\ Used \in Nat /\ limit \in Nat \ {0}
<1>1. rows \in Seq(Row)
    BY DEF TypeOK, Row
<1>2. limit \in Nat \ {0}
    BY OutputAssumption DEF TypeOK
<1> QED
    BY <1>1, <1>2, JoinedType DEF Used

(* What is stored fits what the limit leaves, which it fills if it is cut.  *)
LEMMA DataStoredType ==
    ASSUME TypeOK, NEW s \in Streams, Used < limit
    PROVE  /\ DataStored(s) \in Seq(Bytes)
           /\ Used + Len(DataStored(s)) <= limit
           /\ Len(Piece(s)) > limit - Used => Used + Len(DataStored(s)) = limit
           /\ todo[s] # <<>> => DataStored(s) # <<>>
           /\ DataStored(s) \o SubSeq(Piece(s), Len(DataStored(s)) + 1, Len(Piece(s)))
                = Piece(s)
<1>1. Piece(s) \in Seq(Bytes) /\ (todo[s] # <<>> => Len(Piece(s)) # 0)
    BY PiecesType
<1>2. Used \in Nat /\ limit \in Nat
    BY UsedType
<1> DEFINE piece == Piece(s)
           room == limit - Used
           data == DataStored(s)
<1>3. data = IF Len(piece) > room THEN SubSeq(piece, 1, room) ELSE piece
    BY DEF DataStored
<1> HIDE DEF piece, data
<1>4. room \in Nat /\ room # 0 /\ piece \in Seq(Bytes) /\ Len(piece) \in Nat
    BY <1>1, <1>2 DEF piece
<1>5. CASE Len(piece) > room
    <2>1. /\ SubSeq(piece, 1, room) \in Seq(Bytes) /\ Len(SubSeq(piece, 1, room)) = room
          /\ piece = SubSeq(piece, 1, room) \o SubSeq(piece, room + 1, Len(piece))
        <3>1. room \in 0 .. Len(piece)
            BY <1>4, <1>5
        <3> HIDE DEF room
        <3> QED
            BY <1>4, <3>1, PartsOf, ZenonT(60)
    <2>2. data = SubSeq(piece, 1, room)
        BY <1>3, <1>5
    <2>3. data \in Seq(Bytes) /\ Len(data) = room /\ data # <<>>
        BY <1>4, <2>1, <2>2
    <2>4. Used + Len(data) = limit
        BY <1>2, <2>3
    <2>5. data \o SubSeq(piece, Len(data) + 1, Len(piece)) = piece
        BY <2>1, <2>2, <2>3
    <2>6. Used + Len(data) <= limit
        BY <1>2, <2>4
    <2> HIDE DEF room
    <2> QED
        BY <2>3, <2>4, <2>5, <2>6 DEF piece, data
<1>6. CASE ~(Len(piece) > room)
    <2>1. data = piece
        BY <1>3, <1>6
    <2>2. Used + Len(data) <= limit
        BY <1>2, <1>4, <1>6, <2>1
    <2>3. SubSeq(piece, Len(piece) + 1, Len(piece)) = <<>>
        BY <1>4, SubSeqEmpty
    <2>4. piece \o <<>> = piece
        BY <1>4, ConcatEmptySeq
    <2>5. todo[s] # <<>> => data # <<>>
        BY <1>1, <2>1 DEF piece
    <2>6. ~(Len(Piece(s)) > limit - Used)
        BY <1>6 DEF piece
    <2> QED
        BY <1>4, <2>1, <2>2, <2>3, <2>4, <2>5, <2>6 DEF piece, data
<1> QED
    BY <1>5, <1>6

(* The two outcomes of AppendOutput.                                        *)
Full == WasTruncated \/ Used >= limit
NewRow(s) == [stream |-> s, data |-> DataStored(s),
              truncated |-> Len(Piece(s)) > limit - Used]

LEMMA Appended ==
    ASSUME TypeOK, NEW s \in Streams, AppendOutput(s)
    PROVE  /\ at[s] = "append" /\ at' = [at EXCEPT ![s] = "relay"]
           /\ ~Full => /\ stored' = [stored EXCEPT ![s] = DataStored(s)]
                       /\ truncated' = [truncated EXCEPT ![s] =
                                           Len(Piece(s)) > limit - Used]
                       /\ rows' = Append(rows, NewRow(s))
                       /\ NewRow(s) \in Row
                       /\ Used < limit
           /\ Full => /\ stored' = [stored EXCEPT ![s] = <<>>]
                      /\ truncated' = [truncated EXCEPT ![s] = TRUE]
                      /\ rows' = rows
           /\ UNCHANGED <<inputVars, processVars, pending, trimmed, broken, todo, err,
                          marked, sent, cancelled, left, result>>
<1> DEFINE cut == Len(Piece(s)) > limit - Used
<1>1. /\ stored' = [stored EXCEPT ![s] = IF Full THEN <<>> ELSE DataStored(s)]
      /\ truncated' = [truncated EXCEPT ![s] = Full \/ cut]
      /\ rows' = IF Full THEN rows ELSE Append(rows, NewRow(s))
      /\ at[s] = "append" /\ at' = [at EXCEPT ![s] = "relay"]
      /\ UNCHANGED <<inputVars, processVars, pending, trimmed, broken, todo, err,
                     marked, sent, cancelled, left, result>>
    BY Zenon DEF AppendOutput, Full, DataStored, NewRow
<1>2. cut \in BOOLEAN
    OBVIOUS
<1>3. ASSUME ~Full PROVE Used < limit /\ NewRow(s) \in Row
    <2>1. Used < limit
        BY <1>3, UsedType DEF Full
    <2>2. DataStored(s) \in Seq(Bytes)
        BY <2>1, DataStoredType
    <2> HIDE DEF cut
    <2>3. NewRow(s) = [stream |-> s, data |-> DataStored(s), truncated |-> cut]
        BY DEF NewRow, cut
    <2>4. NewRow(s) \in Row
        BY <1>2, <2>2, <2>3 DEF Row
    <2> QED
        BY <2>1, <2>4
<1>4. Full => (Full \/ cut) = TRUE
    OBVIOUS
<1>5. ~Full => (Full \/ cut) = cut
    OBVIOUS
<1> QED
    BY <1>1, <1>3, <1>4, <1>5

LEMMA AppendOutputType ==
    ASSUME TypeOK, NEW s \in Streams, AppendOutput(s) PROVE TypeOK'
<1>0. /\ at' = [at EXCEPT ![s] = "relay"]
      /\ ~Full => /\ stored' = [stored EXCEPT ![s] = DataStored(s)]
                  /\ truncated' = [truncated EXCEPT ![s] = Len(Piece(s)) > limit - Used]
                  /\ rows' = Append(rows, NewRow(s))
                  /\ NewRow(s) \in Row /\ Used < limit
      /\ Full => /\ stored' = [stored EXCEPT ![s] = <<>>]
                 /\ truncated' = [truncated EXCEPT ![s] = TRUE]
                 /\ rows' = rows
      /\ UNCHANGED <<inputVars, processVars, pending, trimmed, broken, todo, err,
                     marked, sent, cancelled, left, result>>
    BY Appended
<1>1. /\ stored \in [Streams -> Seq(Bytes)] /\ truncated \in [Streams -> BOOLEAN]
      /\ at \in [Streams -> {"idle", "append", "relay", "mark"}]
      /\ rows \in Seq(Row) /\ <<>> \in Seq(Bytes)
    BY DEF TypeOK, Row
<1>2. at' \in [Streams -> {"idle", "append", "relay", "mark"}]
    BY <1>0, <1>1
<1>3. /\ stored' \in [Streams -> Seq(Bytes)] /\ truncated' \in [Streams -> BOOLEAN]
      /\ rows' \in Seq(Row)
    <2>1. CASE Full
        BY <1>0, <1>1, <2>1
    <2>2. CASE ~Full
        <3>1. DataStored(s) \in Seq(Bytes)
            BY <1>0, <2>2, DataStoredType
        <3>2. rows' \in Seq(Row)
            <4>1. \A r \in Row : Append(rows, r) \in Seq(Row)
                BY <1>1, AppendProperties
            <4> QED
                BY <1>0, <2>2, <4>1
        <3> DEFINE cut == Len(Piece(s)) > limit - Used
        <3>3. cut \in BOOLEAN
            OBVIOUS
        <3>4. truncated' = [truncated EXCEPT ![s] = cut]
            BY <1>0, <2>2
        <3> HIDE DEF cut
        <3> QED
            BY <1>0, <1>1, <2>2, <3>1, <3>2, <3>3, <3>4
    <2> QED
        BY <2>1, <2>2
<1> QED
    BY <1>0, <1>2, <1>3 DEF TypeOK, Row, inputVars, processVars

LEMMA AppendFailsType ==
    ASSUME TypeOK, NEW s \in Streams, AppendFails(s) PROVE TypeOK'
<1>1. Fail(s)
    BY DEF AppendFails
<1>2. /\ err' \in [Streams -> BOOLEAN] /\ broken' \in [Streams -> BOOLEAN]
      /\ todo' \in [Streams -> Seq(Bytes)]
      /\ at' \in [Streams -> Standing]
    BY <1>1, FailType
<1> QED
    BY <1>2 DEF TypeOK, AppendFails, Standing, inputVars, processVars

SentFrame == [stream : Streams, data : Seq(Bytes \cup {Marker, Broken})]

LEMMA RelayType ==
    ASSUME TypeOK, NEW s \in Streams, Relay(s) PROVE TypeOK'
<1>1. /\ at \in [Streams -> {"idle", "append", "relay", "mark"}]
      /\ sent \in Seq(SentFrame) /\ stored[s] \in Seq(Bytes)
    BY DEF TypeOK, SentFrame
<1>2. CASE stored[s] # <<>> /\ left
    <2>1. Fail(s) /\ UNCHANGED <<sent, pending>>
        BY <1>2 DEF Relay
    <2>2. /\ err' \in [Streams -> BOOLEAN] /\ broken' \in [Streams -> BOOLEAN]
          /\ todo' \in [Streams -> Seq(Bytes)]
          /\ at' \in [Streams -> Standing]
        BY <2>1, FailType
    <2> QED
        BY <2>1, <2>2 DEF TypeOK, Relay, Standing, inputVars, processVars
<1>3. CASE ~(stored[s] # <<>> /\ left)
    <2> DEFINE frame == [stream |-> s, data |-> Frame(stored[s])]
    <2>1. /\ sent' = IF stored[s] = <<>> THEN sent ELSE Append(sent, frame)
          /\ UNCHANGED <<err, broken>>
          /\ ToMark(s) => at' = [at EXCEPT ![s] = "mark"] /\ UNCHANGED <<todo, pending>>
          /\ ~ToMark(s) => Continue(s)
        BY <1>3 DEF Relay
    <2>2. sent' \in Seq(SentFrame)
        <3>1. Frame(stored[s]) \in Seq(Bytes \cup {Marker, Broken})
            BY <1>1, FrameType
        <3>2. frame \in SentFrame
            BY <3>1 DEF SentFrame
        <3> HIDE DEF frame
        <3> QED
            BY <1>1, <2>1, <3>2, AppendProperties
    <2> HIDE DEF frame
    <2>3. /\ pending' \in [Streams -> Holding]
          /\ todo' \in [Streams -> Seq(Bytes)]
          /\ at' \in [Streams -> Standing]
        <3>1. CASE ToMark(s)
            BY <1>1, <2>1, <3>1 DEF TypeOK, Holding, Standing
        <3>2. CASE ~ToMark(s)
            BY <2>1, <3>2, ContinueType
        <3> QED
            BY <3>1, <3>2
    <2> QED
        BY <2>1, <2>2, <2>3
           DEF TypeOK, Relay, Holding, Standing, SentFrame, inputVars, processVars
<1> QED
    BY <1>2, <1>3

LEMMA MarkType ==
    ASSUME TypeOK, NEW s \in Streams, Mark(s) PROVE TypeOK'
<1>1. sent \in Seq(SentFrame) /\ marked' \in [Streams -> BOOLEAN]
    BY DEF TypeOK, SentFrame, Mark
<1>2. CASE left
    <2>1. Fail(s) /\ UNCHANGED <<sent, pending>>
        BY <1>2 DEF Mark
    <2>2. /\ err' \in [Streams -> BOOLEAN] /\ broken' \in [Streams -> BOOLEAN]
          /\ todo' \in [Streams -> Seq(Bytes)]
          /\ at' \in [Streams -> Standing]
        BY <2>1, FailType
    <2> QED
        BY <1>1, <2>1, <2>2 DEF TypeOK, Mark, Standing, inputVars, processVars
<1>3. CASE ~left
    <2> DEFINE frame == [stream |-> s, data |-> <<Marker>>]
    <2>1. /\ sent' = Append(sent, frame)
          /\ Continue(s) /\ UNCHANGED <<err, broken>>
        BY <1>3 DEF Mark
    <2>2. sent' \in Seq(SentFrame)
        <3>1. frame \in SentFrame
            BY DEF SentFrame
        <3> HIDE DEF frame
        <3> QED
            BY <1>1, <2>1, <3>1, AppendProperties
    <2> HIDE DEF frame
    <2>3. /\ pending' \in [Streams -> Holding]
          /\ todo' \in [Streams -> Seq(Bytes)]
          /\ at' \in [Streams -> Standing]
        BY <2>1, ContinueType
    <2> QED
        BY <1>1, <2>1, <2>2, <2>3
           DEF TypeOK, Mark, Holding, Standing, SentFrame, inputVars, processVars
<1> QED
    BY <1>2, <1>3

LEMMA ChainClosesType ==
    ASSUME TypeOK, NEW s \in Streams, NEW i \in DOMAIN secrets
    PROVE  Chain(s, i, <<>>, TRUE) \in Flow
<1> DEFINE start == Entering(s, <<>>)
           one == Onward(s, start, i, TRUE)
<1>1. start \in Flow /\ start.out = <<>>
    <2>1. <<>> \in Seq(Bytes)
        OBVIOUS
    <2> QED
        BY <2>1, EnteringFlow
<1> HIDE DEF start
<1>2. one \in Flow
    BY <1>1, OnwardCloses
<1> HIDE DEF one
<1>3. DOMAIN secrets = 1 .. Len(secrets)
    BY SecretsType
<1>4. CASE Len(secrets) = 1 /\ i = 1
    <2>1. Chain(s, 1, <<>>, TRUE) = one
        BY <1>4, ChainOfOne DEF start, one
    <2> QED
        BY <1>2, <1>4, <2>1
<1>5. CASE Len(secrets) = 2 /\ i = 1
    <2>1. Chain(s, 1, <<>>, TRUE) = Onward(s, one, 2, FALSE)
        BY <1>5, ChainOfTwo DEF start, one
    <2>2. 2 \in DOMAIN secrets /\ <<>> \in Seq(Bytes)
        BY <1>3, <1>5
    <2>3. \A x \in Flow : Onward(s, x, 2, FALSE) \in Flow
        <3>1. \A x \in Flow : PassesOn(s, 2, x, Onward(s, x, 2, FALSE))
            BY <2>2, OnwardPasses
        <3> QED
            BY <3>1 DEF PassesOn
    <2> QED
        BY <1>2, <1>5, <2>1, <2>3
<1>6. CASE Len(secrets) = 2 /\ i = 2
    <2>1. Chain(s, 2, <<>>, TRUE) = one
        BY <1>6, ChainOfTwo DEF start, one
    <2> QED
        BY <1>2, <1>6, <2>1
<1>7. Len(secrets) = 1 \/ Len(secrets) = 2
    BY SecretsType
<1>8. \/ Len(secrets) = 1 /\ i = 1
      \/ Len(secrets) = 2 /\ i = 1
      \/ Len(secrets) = 2 /\ i = 2
    BY <1>3, <1>7
<1> QED
    BY <1>4, <1>5, <1>6, <1>8

LEMMA ClosingsType ==
    \A k \in DOMAIN Closings :
        /\ k \in 1 .. 4
        /\ Closings[k][1] \in Streams /\ Closings[k][2] \in {1, 2}
    BY OutputAssumption DEF Closings

LEMMA CloseRedactorType ==
    ASSUME TypeOK, NEW k \in DOMAIN Closings, CloseRedactor(k) PROVE TypeOK'
<1> DEFINE s == Closings[k][1]
           i == Closings[k][2]
           closes == i \in DOMAIN secrets /\ pending[s][i] # <<>>
<1>1. s \in Streams /\ k \in 0 .. Len(Closings)
    BY ClosingsType DEF Closings
<1>2. /\ closed' = k
      /\ closes => Write(s, Chain(s, i, <<>>, TRUE))
      /\ ~closes => UNCHANGED <<pending, trimmed, todo, at, broken>>
      /\ UNCHANGED <<inputVars, emitted, process, stored, truncated, err, marked,
                     rows, sent, cancelled, left, result>>
    BY DEF CloseRedactor
<1> HIDE DEF s, i
<1>3. /\ trimmed' \in [Streams -> Holding] /\ pending' \in [Streams -> Holding]
      /\ broken' \in [Streams -> BOOLEAN] /\ todo' \in [Streams -> Seq(Bytes)]
      /\ at' \in [Streams -> Standing]
    <2>1. CASE closes
        <3>1. Chain(s, i, <<>>, TRUE) \in Flow
            BY <1>1, <2>1, ChainClosesType
        <3>2. \A down \in Flow : Write(s, down) =>
                 /\ trimmed' \in [Streams -> Holding] /\ pending' \in [Streams -> Holding]
                 /\ broken' \in [Streams -> BOOLEAN] /\ todo' \in [Streams -> Seq(Bytes)]
                 /\ at' \in [Streams -> Standing]
            BY <1>1, WriteType
        <3> QED
            BY <1>2, <2>1, <3>1, <3>2
    <2>2. CASE ~closes
        BY <1>2, <2>2 DEF TypeOK, Holding, Standing
    <2> QED
        BY <2>1, <2>2
<1> QED
    BY <1>1, <1>2, <1>3 DEF TypeOK, Holding, Standing, inputVars

LEMMA EndsType ==
    ASSUME TypeOK, RunReturns \/ Return \/ Cancel \/ AgentLeaves
    PROVE  TypeOK'
<1>1. CASE RunReturns
    <2>1. process' = "exited" /\ result' \in {"none", "failed"}
        BY <1>1 DEF RunReturns
    <2> QED
        BY <1>1, <2>1 DEF TypeOK, RunReturns, inputVars, writerVars
<1>2. CASE Return
    <2>1. process' = "returned" /\ result' \in {"failed", "exit"}
        BY <1>2 DEF Return
    <2> QED
        BY <1>2, <2>1 DEF TypeOK, Return, inputVars, writerVars
<1>3. CASE Cancel
    BY <1>3 DEF TypeOK, Cancel, inputVars, processVars, writerVars
<1>4. CASE AgentLeaves
    BY <1>4 DEF TypeOK, AgentLeaves, inputVars, processVars, writerVars
<1> QED
    BY <1>1, <1>2, <1>3, <1>4

LEMMA StutterType ==
    ASSUME TypeOK, UNCHANGED vars PROVE TypeOK'
    BY DEF TypeOK, vars, inputVars, processVars, writerVars

LEMMA NextType ==
    ASSUME TypeOK, [Next]_vars PROVE TypeOK'
<1>1. CASE \E s \in Streams : Emit(s) \/ AppendOutput(s) \/ AppendFails(s) \/ Relay(s)
                              \/ Mark(s)
    BY <1>1, EmitType, AppendOutputType, AppendFailsType, RelayType, MarkType
<1>2. CASE \E k \in DOMAIN Closings : CloseRedactor(k)
    BY <1>2, CloseRedactorType
<1>3. CASE RunReturns \/ Return \/ Cancel \/ AgentLeaves
    BY <1>3, EndsType
<1>4. CASE UNCHANGED vars
    BY <1>4, StutterType
<1> QED
    BY <1>1, <1>2, <1>3, <1>4 DEF Next

(* Every variable of the output path keeps its type: among it, what the     *)
(* redactors hold and pass on is made of the bytes of the text and of the   *)
(* mark of a secret, and no stream is read past its end.                    *)
THEOREM TypeCorrect == Spec => []TypeOK
<1>1. Init => TypeOK
    BY InitType
<1>2. TypeOK /\ [Next]_vars => TypeOK'
    BY NextType
<1> QED
    BY <1>1, <1>2, PTL DEF Spec

-----------------------------------------------------------------------------
(* The limit.                                                               *)

LimitInv ==
    /\ Used <= limit
    /\ \A i \in DOMAIN rows : rows[i].truncated => i = Len(rows) /\ Used = limit
    /\ \A s \in Streams : truncated[s] \/ marked[s] => Used = limit
    /\ \A s \in Streams : at[s] = "mark" => truncated[s]

LEMMA InitLimit ==
    ASSUME Init PROVE LimitInv
<1>1. rows = <<>> /\ limit \in Nat \ {0}
    BY OutputAssumption DEF Init
<1>2. Used = 0
    <2>1. Joined(<<>>) = <<>>
        <3>1. [i \in DOMAIN <<>> |-> <<>>[i].data] = <<>>
            OBVIOUS
        <3> QED
            BY <3>1, FlattenEmpty DEF Joined
    <2> QED
        BY <1>1, <2>1 DEF Used
<1> QED
    BY <1>1, <1>2 DEF Init, LimitInv

LEMMA AppendOutputLimit ==
    ASSUME TypeOK, LimitInv, NEW s \in Streams, AppendOutput(s) PROVE LimitInv'
<1>0. /\ at' = [at EXCEPT ![s] = "relay"]
      /\ ~Full => /\ truncated' = [truncated EXCEPT ![s] = Len(Piece(s)) > limit - Used]
                  /\ rows' = Append(rows, NewRow(s))
                  /\ NewRow(s) \in Row /\ Used < limit
      /\ Full => /\ truncated' = [truncated EXCEPT ![s] = TRUE] /\ rows' = rows
      /\ limit' = limit /\ marked' = marked
    BY Appended DEF inputVars
<1>1. /\ rows \in Seq(Row) /\ Used \in Nat /\ limit \in Nat
      /\ truncated \in [Streams -> BOOLEAN] /\ at \in [Streams -> Standing]
    BY UsedType DEF TypeOK, Standing
<1>2. \A r \in Streams : at'[r] = "mark" => r # s /\ at[r] = "mark"
    BY <1>0, <1>1
<1>3. CASE Full
    <2>1. Used = limit
        BY <1>1, <1>3 DEF Full, WasTruncated, LimitInv
    <2>2. Used' = Used
        BY <1>0, <1>3 DEF Used
    <2>3. \A r \in Streams : at'[r] = "mark" => truncated'[r]
        BY <1>0, <1>1, <1>2, <1>3 DEF LimitInv
    <2> QED
        BY <1>0, <1>1, <1>3, <2>1, <2>2, <2>3 DEF LimitInv
<1>4. CASE ~Full
    <2> DEFINE cut == Len(Piece(s)) > limit - Used
               data == DataStored(s)
    <2>1. /\ truncated' = [truncated EXCEPT ![s] = cut]
          /\ rows' = Append(rows, NewRow(s)) /\ NewRow(s) \in Row /\ Used < limit
        BY <1>0, <1>4
    <2>2. NewRow(s).data = data /\ NewRow(s).truncated = cut
        BY DEF NewRow
    <2>3. data \in Seq(Bytes) /\ Used + Len(data) <= limit
          /\ (cut => Used + Len(data) = limit)
        BY <2>1, DataStoredType
    <2>4. cut \in BOOLEAN
        OBVIOUS
    <2> HIDE DEF cut, data
    <2>5. Used' = Used + Len(data)
        <3>1. Joined(rows') = Joined(rows) \o data
            BY <1>1, <2>1, <2>2, JoinedType
        <3>2. Joined(rows) \in Seq(Bytes)
            BY <1>1, JoinedType
        <3>3. Len(Joined(rows) \o data) = Len(Joined(rows)) + Len(data)
            BY <2>3, <3>2, ConcatProperties
        <3> QED
            BY <3>1, <3>3 DEF Used
    <2>6. \A i \in DOMAIN rows : ~rows[i].truncated
        BY <1>4 DEF Full, WasTruncated
    <2>7. /\ DOMAIN rows' = 1 .. Len(rows) + 1 /\ Len(rows') = Len(rows) + 1
          /\ DOMAIN rows = 1 .. Len(rows) /\ Len(rows) \in Nat
          /\ \A i \in 1 .. Len(rows) : rows'[i] = rows[i]
          /\ rows'[Len(rows) + 1] = NewRow(s)
        BY <1>1, <2>1, AppendProperties
    <2>8. \A r \in Streams : ~truncated[r] /\ ~marked[r]
        BY <1>1, <2>1 DEF LimitInv
    <2>9. \A i \in DOMAIN rows' :
             rows'[i].truncated => i = Len(rows') /\ Used' = limit'
        <3>1. ASSUME NEW i \in DOMAIN rows', rows'[i].truncated
              PROVE  i = Len(rows') /\ Used' = limit'
            <4>1. i = Len(rows) + 1
                BY <2>6, <2>7, <3>1
            <4>2. cut
                BY <2>2, <2>7, <3>1, <4>1
            <4> QED
                BY <1>0, <2>3, <2>5, <2>7, <4>1, <4>2
        <3> QED
            BY <3>1
    <2>10. \A r \in Streams : truncated'[r] \/ marked'[r] => Used' = limit'
        BY <1>0, <1>1, <2>1, <2>3, <2>4, <2>5, <2>8
    <2>11. \A r \in Streams : at'[r] = "mark" => truncated'[r]
        BY <1>1, <1>2, <2>8 DEF LimitInv
    <2>12. Used' <= limit'
        BY <1>0, <2>3, <2>5
    <2> QED
        BY <2>9, <2>10, <2>11, <2>12 DEF LimitInv
<1> QED
    BY <1>3, <1>4

(* A step that stores nothing keeps the limit.                              *)
LEMMA LimitFrame ==
    ASSUME LimitInv, UNCHANGED <<limit, rows, truncated>>,
           \A s \in Streams : marked'[s] => marked[s] \/ truncated[s],
           \A s \in Streams : at'[s] = "mark" => at[s] = "mark" \/ truncated[s]
    PROVE  LimitInv'
    BY DEF LimitInv, Used

LEMMA WriteAt ==
    ASSUME TypeOK, NEW s \in Streams, NEW down, Write(s, down)
    PROVE  \A r \in Streams : at'[r] = at[r] \/ (r = s /\ at'[r] = "append")
    BY DEF TypeOK, Write

LEMMA NextLimit ==
    ASSUME TypeOK, LimitInv, [Next]_vars PROVE LimitInv'
<1>1. ASSUME NEW s \in Streams, Emit(s) PROVE LimitInv'
    <2>1. \A r \in Streams : at'[r] = at[r] \/ (r = s /\ at'[r] = "append")
        BY <1>1, WriteAt DEF Emit
    <2> QED
        BY <1>1, <2>1, LimitFrame DEF Emit, inputVars
<1>2. ASSUME NEW s \in Streams, AppendOutput(s) PROVE LimitInv'
    BY <1>2, AppendOutputLimit
<1>3. ASSUME NEW s \in Streams, AppendFails(s) PROVE LimitInv'
    <2>1. \A r \in Streams : at'[r] = at[r] \/ at'[r] = "idle"
        BY <1>3 DEF AppendFails, Fail, TypeOK
    <2> QED
        BY <1>3, <2>1, LimitFrame DEF AppendFails, inputVars
<1>4. ASSUME NEW s \in Streams, Relay(s) PROVE LimitInv'
    <2>1. \A r \in Streams : at'[r] = "mark" => at[r] = "mark" \/ truncated[r]
        BY <1>4 DEF Relay, Fail, Continue, ToMark, TypeOK
    <2> QED
        BY <1>4, <2>1, LimitFrame DEF Relay, inputVars
<1>5. ASSUME NEW s \in Streams, Mark(s) PROVE LimitInv'
    <2>1. \A r \in Streams : at'[r] = "mark" => at[r] = "mark"
        BY <1>5 DEF Mark, Fail, Continue, TypeOK
    <2>2. \A r \in Streams : marked'[r] => marked[r] \/ truncated[r]
        BY <1>5 DEF Mark, TypeOK, LimitInv
    <2> QED
        BY <1>5, <2>1, <2>2, LimitFrame DEF Mark, inputVars
<1>6. ASSUME NEW k \in DOMAIN Closings, CloseRedactor(k) PROVE LimitInv'
    <2> DEFINE s == Closings[k][1]
               i == Closings[k][2]
    <2>1. s \in Streams
        BY ClosingsType
    <2>2. \/ Write(s, Chain(s, i, <<>>, TRUE))
          \/ UNCHANGED at
        BY <1>6 DEF CloseRedactor
    <2> HIDE DEF s, i
    <2>3. \A r \in Streams : at'[r] = at[r] \/ at'[r] = "append"
        <3>1. ASSUME NEW down, Write(s, down)
              PROVE  \A r \in Streams : at'[r] = at[r] \/ at'[r] = "append"
            BY <2>1, <3>1, WriteAt
        <3> QED
            BY <2>2, <3>1
    <2> QED
        BY <1>6, <2>3, LimitFrame DEF CloseRedactor, inputVars
<1>7. CASE RunReturns \/ Return \/ Cancel \/ AgentLeaves \/ UNCHANGED vars
    BY <1>7, LimitFrame
       DEF RunReturns, Return, Cancel, AgentLeaves, vars, inputVars, writerVars
<1> QED
    BY <1>1, <1>2, <1>3, <1>4, <1>5, <1>6, <1>7 DEF Next

(* The limit holds for both streams together, nothing is dropped before it  *)
(* is used up, and a truncated row is the last one, however the writes of   *)
(* the two streams interleave.                                              *)
THEOREM OutputLimited == Spec => []LimitHeld
<1>1. Init => TypeOK /\ LimitInv
    BY InitType, InitLimit
<1>2. TypeOK /\ LimitInv /\ [Next]_vars => (TypeOK /\ LimitInv)'
    BY NextType, NextLimit
<1>3. LimitInv => LimitHeld
    BY DEF LimitInv, LimitHeld, Used
<1> QED
    BY <1>1, <1>2, <1>3, PTL DEF Spec

-----------------------------------------------------------------------------
(* Where the writers, the redactors and the execution stand.                *)

WriterInv ==
    /\ \A s \in Streams : at[s] = "idle" <=> todo[s] = <<>>
    /\ \A s \in Streams : err[s] => at[s] = "idle"
    /\ \A s \in Streams : broken[s] => err[s]
    /\ \A s \in Streams : at[s] = "idle" /\ ~err[s] => pending[s] = trimmed[s]
    /\ \A s \in Streams : at[s] = "mark" => ~marked[s]

EndInv ==
    /\ process = "running" => closed = 0 /\ result = "none"
    /\ result = "exit" => process = "returned" /\ \A s \in Streams : ~err[s]
    /\ process = "returned" => closed = 4 /\ \A s \in Streams : at[s] = "idle"

LEMMA InitWriter ==
    ASSUME Init PROVE WriterInv /\ EndInv
    BY DEF Init, WriterInv, EndInv

(* The effect of a write on the streams.                                    *)
LEMMA WriteEffect ==
    ASSUME TypeOK, WriterInv, NEW s \in Streams, NEW down \in Flow,
           at[s] = "idle", Write(s, down)
    PROVE  /\ trimmed' = [trimmed EXCEPT ![s] = down.held]
           /\ \A r \in Streams \ {s} :
                 /\ trimmed'[r] = trimmed[r] /\ pending'[r] = pending[r]
                 /\ at'[r] = at[r] /\ todo'[r] = todo[r] /\ broken'[r] = broken[r]
           /\ trimmed'[s] = down.held
           /\ err[s] => at'[s] = "idle" /\ todo'[s] = <<>>
           /\ ~err[s] => /\ todo'[s] = down.out /\ ~broken'[s]
                         /\ down.out = <<>> => /\ at'[s] = "idle"
                                               /\ pending'[s] = down.held
                         /\ down.out # <<>> => at'[s] = "append"
<1>0. down.out \in Seq(Bytes)
    BY DEF Flow
<1>1. /\ at \in [Streams -> Standing] /\ todo \in [Streams -> Seq(Bytes)]
      /\ broken \in [Streams -> BOOLEAN] /\ DOMAIN trimmed = Streams
      /\ DOMAIN pending = Streams
    BY DEF TypeOK, Standing
<1>2. /\ trimmed' = [trimmed EXCEPT ![s] = down.held]
      /\ pending' = [pending EXCEPT ![s] = IF down.out = <<>> THEN down.held
                                           ELSE down.failed]
      /\ down.out = <<>> \/ err[s] =>
            /\ broken' = [broken EXCEPT ![s] = @ \/ down.out # <<>>]
            /\ UNCHANGED <<todo, at>>
      /\ ~(down.out = <<>> \/ err[s]) =>
            /\ todo' = [todo EXCEPT ![s] = down.out]
            /\ at' = [at EXCEPT ![s] = "append"]
            /\ UNCHANGED broken
    BY DEF Write
<1>3. todo[s] = <<>> /\ (broken[s] => err[s])
    BY DEF WriterInv
<1>4. \A r \in Streams \ {s} : trimmed'[r] = trimmed[r] /\ pending'[r] = pending[r]
    BY <1>1, <1>2
<1>5. trimmed'[s] = down.held
      /\ (down.out = <<>> => pending'[s] = down.held)
    BY <1>1, <1>2
<1>6. CASE down.out = <<>> \/ err[s]
    <2>1. UNCHANGED <<todo, at>>
          /\ broken' = [broken EXCEPT ![s] = @ \/ down.out # <<>>]
        BY <1>2, <1>6
    <2>2. \A r \in Streams \ {s} : broken'[r] = broken[r]
        BY <1>1, <2>1
    <2>3. ~err[s] => ~broken'[s]
        <3>1. SUFFICES ASSUME ~err[s] PROVE ~broken'[s]
            OBVIOUS
        <3>2. down.out = <<>> /\ ~broken[s]
            BY <1>3, <1>6, <3>1
        <3>3. broken'[s] = (broken[s] \/ down.out # <<>>)
            BY <1>1, <2>1
        <3> QED
            BY <3>2, <3>3
    <2> QED
        BY <1>2, <1>3, <1>4, <1>5, <1>6, <2>1, <2>2, <2>3
<1>7. CASE ~(down.out = <<>> \/ err[s])
    <2>1. /\ todo' = [todo EXCEPT ![s] = down.out]
          /\ at' = [at EXCEPT ![s] = "append"] /\ broken' = broken
        BY <1>2, <1>7
    <2> QED
        BY <1>1, <1>2, <1>3, <1>4, <1>5, <1>7, <2>1
<1> QED
    BY <1>6, <1>7

LEMMA WriteWriter ==
    ASSUME TypeOK, WriterInv, NEW s \in Streams, NEW down \in Flow,
           at[s] = "idle", Write(s, down), UNCHANGED <<err, marked>>
    PROVE  WriterInv'
<1>1. /\ \A r \in Streams \ {s} :
                 /\ trimmed'[r] = trimmed[r] /\ pending'[r] = pending[r]
                 /\ at'[r] = at[r] /\ todo'[r] = todo[r] /\ broken'[r] = broken[r]
      /\ trimmed'[s] = down.held
      /\ err[s] => at'[s] = "idle" /\ todo'[s] = <<>>
      /\ ~err[s] => /\ todo'[s] = down.out /\ ~broken'[s]
                    /\ down.out = <<>> => /\ at'[s] = "idle"
                                          /\ pending'[s] = down.held
                    /\ down.out # <<>> => at'[s] = "append"
    BY WriteEffect
<1>2. \A r \in Streams :
         /\ at'[r] = "idle" <=> todo'[r] = <<>>
         /\ err[r] => at'[r] = "idle"
         /\ broken'[r] => err[r]
         /\ at'[r] = "idle" /\ ~err[r] => pending'[r] = trimmed'[r]
         /\ at'[r] = "mark" => ~marked[r]
    <2>1. ASSUME NEW r \in Streams \ {s}
          PROVE  /\ at'[r] = "idle" <=> todo'[r] = <<>>
                 /\ err[r] => at'[r] = "idle"
                 /\ broken'[r] => err[r]
                 /\ at'[r] = "idle" /\ ~err[r] => pending'[r] = trimmed'[r]
                 /\ at'[r] = "mark" => ~marked[r]
        BY <1>1 DEF WriterInv
    <2>2. /\ at'[s] = "idle" <=> todo'[s] = <<>>
          /\ err[s] => at'[s] = "idle"
          /\ broken'[s] => err[s]
          /\ at'[s] = "idle" /\ ~err[s] => pending'[s] = trimmed'[s]
          /\ at'[s] = "mark" => ~marked[s]
        BY <1>1
    <2> QED
        BY <2>1, <2>2
<1> QED
    BY <1>2 DEF WriterInv

(* The step of a writer concerns its stream, and leaves it as it should.    *)
LEMMA WriterFrame ==
    ASSUME WriterInv, NEW s \in Streams,
           \A r \in Streams \ {s} :
               /\ at'[r] = at[r] /\ todo'[r] = todo[r] /\ err'[r] = err[r]
               /\ broken'[r] = broken[r] /\ pending'[r] = pending[r]
               /\ trimmed'[r] = trimmed[r] /\ marked'[r] = marked[r],
           at'[s] = "idle" <=> todo'[s] = <<>>,
           err'[s] => at'[s] = "idle",
           broken'[s] => err'[s],
           at'[s] = "idle" /\ ~err'[s] => pending'[s] = trimmed'[s],
           at'[s] = "mark" => ~marked'[s]
    PROVE  WriterInv'
<1>1. \A r \in Streams :
         /\ at'[r] = "idle" <=> todo'[r] = <<>>
         /\ err'[r] => at'[r] = "idle"
         /\ broken'[r] => err'[r]
         /\ at'[r] = "idle" /\ ~err'[r] => pending'[r] = trimmed'[r]
         /\ at'[r] = "mark" => ~marked'[r]
    <2>1. ASSUME NEW r \in Streams \ {s}
          PROVE  /\ at'[r] = "idle" <=> todo'[r] = <<>>
                 /\ err'[r] => at'[r] = "idle"
                 /\ broken'[r] => err'[r]
                 /\ at'[r] = "idle" /\ ~err'[r] => pending'[r] = trimmed'[r]
                 /\ at'[r] = "mark" => ~marked'[r]
        BY DEF WriterInv
    <2> QED
        BY <2>1
<1> QED
    BY <1>1 DEF WriterInv

LEMMA FailEffect ==
    ASSUME TypeOK, NEW s \in Streams, Fail(s)
    PROVE  /\ err'[s] /\ broken'[s] /\ at'[s] = "idle" /\ todo'[s] = <<>>
           /\ \A r \in Streams \ {s} :
                 /\ err'[r] = err[r] /\ broken'[r] = broken[r]
                 /\ at'[r] = at[r] /\ todo'[r] = todo[r]
    BY DEF TypeOK, Fail

LEMMA ContinueEffect ==
    ASSUME TypeOK, NEW s \in Streams, Continue(s)
    PROVE  /\ todo'[s] = NextPieces(s)
           /\ NextPieces(s) = <<>> => at'[s] = "idle" /\ pending'[s] = trimmed[s]
           /\ NextPieces(s) # <<>> => at'[s] = "append"
           /\ \A r \in Streams \ {s} :
                 /\ pending'[r] = pending[r]
                 /\ at'[r] = at[r] /\ todo'[r] = todo[r]
    BY DEF TypeOK, Continue

LEMMA NextWriter ==
    ASSUME TypeOK, WriterInv, [Next]_vars PROVE WriterInv'
<1>0. /\ at \in [Streams -> Standing] /\ marked \in [Streams -> BOOLEAN]
    BY DEF TypeOK, Standing
<1>1. ASSUME NEW s \in Streams, Emit(s) PROVE WriterInv'
    <2>1. PICK down \in Flow : Write(s, down)
        BY <1>1, EmitFlow
    <2> QED
        BY <1>1, <2>1, WriteWriter DEF Emit
<1>2. ASSUME NEW s \in Streams, AppendOutput(s) PROVE WriterInv'
    <2>1. /\ at[s] = "append" /\ at' = [at EXCEPT ![s] = "relay"]
          /\ UNCHANGED <<todo, err, broken, pending, trimmed, marked>>
        BY <1>2, Appended
    <2>2. at'[s] = "relay" /\ \A r \in Streams \ {s} : at'[r] = at[r]
        BY <1>0, <2>1
    <2>3. /\ at'[s] = "idle" <=> todo'[s] = <<>>
          /\ err'[s] => at'[s] = "idle"
          /\ broken'[s] => err'[s]
        BY <2>1, <2>2 DEF WriterInv
    <2> QED
        BY <2>1, <2>2, <2>3, WriterFrame
<1>3. ASSUME NEW s \in Streams, AppendFails(s) PROVE WriterInv'
    <2>1. Fail(s) /\ UNCHANGED <<pending, trimmed, marked>>
        BY <1>3 DEF AppendFails
    <2> QED
        BY <2>1, FailEffect, WriterFrame
<1>4. ASSUME NEW s \in Streams, Relay(s) PROVE WriterInv'
    <2>0. UNCHANGED <<trimmed, marked>> /\ at[s] = "relay"
        BY <1>4 DEF Relay
    <2>1. CASE stored[s] # <<>> /\ left
        <3>1. Fail(s) /\ UNCHANGED pending
            BY <1>4, <2>1 DEF Relay
        <3> QED
            BY <2>0, <3>1, FailEffect, WriterFrame
    <2>2. CASE ~(stored[s] # <<>> /\ left) /\ ToMark(s)
        <3>1. at' = [at EXCEPT ![s] = "mark"] /\ UNCHANGED <<todo, pending, err, broken>>
            BY <1>4, <2>2 DEF Relay
        <3>2. at'[s] = "mark" /\ \A r \in Streams \ {s} : at'[r] = at[r]
            BY <1>0, <3>1
        <3>3. /\ todo'[s] # <<>> /\ ~err'[s] /\ ~broken'[s] /\ ~marked'[s]
            BY <2>0, <2>2, <3>1 DEF WriterInv, ToMark
        <3> QED
            BY <2>0, <3>1, <3>2, <3>3, WriterFrame
    <2>3. CASE ~(stored[s] # <<>> /\ left) /\ ~ToMark(s)
        <3>1. Continue(s) /\ UNCHANGED <<err, broken>>
            BY <1>4, <2>3 DEF Relay
        <3>2. ~err'[s] /\ ~broken'[s]
            BY <2>0, <3>1 DEF WriterInv
        <3> QED
            BY <2>0, <3>1, <3>2, ContinueEffect, WriterFrame
    <2> QED
        BY <2>1, <2>2, <2>3
<1>5. ASSUME NEW s \in Streams, Mark(s) PROVE WriterInv'
    <2>0. UNCHANGED trimmed /\ at[s] = "mark" /\ \A r \in Streams \ {s} : marked'[r] = marked[r]
        BY <1>0, <1>5 DEF Mark
    <2>1. CASE left
        <3>1. Fail(s) /\ UNCHANGED pending
            BY <1>5, <2>1 DEF Mark
        <3> QED
            BY <2>0, <3>1, FailEffect, WriterFrame
    <2>2. CASE ~left
        <3>1. Continue(s) /\ UNCHANGED <<err, broken>>
            BY <1>5, <2>2 DEF Mark
        <3>2. ~err'[s] /\ ~broken'[s]
            BY <2>0, <3>1 DEF WriterInv
        <3> QED
            BY <2>0, <3>1, <3>2, ContinueEffect, WriterFrame
    <2> QED
        BY <2>1, <2>2
<1>6. ASSUME NEW k \in DOMAIN Closings, CloseRedactor(k) PROVE WriterInv'
    <2> DEFINE s == Closings[k][1]
               i == Closings[k][2]
    <2>1. s \in Streams /\ at[s] = "idle" /\ UNCHANGED <<err, marked>>
        BY <1>6, ClosingsType DEF CloseRedactor
    <2>2. CASE i \in DOMAIN secrets /\ pending[s][i] # <<>>
        <3>1. Write(s, Chain(s, i, <<>>, TRUE))
            BY <1>6, <2>2 DEF CloseRedactor
        <3> HIDE DEF s, i
        <3>2. Chain(s, i, <<>>, TRUE) \in Flow
            BY <2>1, <2>2, ChainClosesType
        <3>3. PICK down \in Flow : Write(s, down)
            BY <3>1, <3>2
        <3> QED
            BY <2>1, <3>3, WriteWriter
    <2>3. CASE ~(i \in DOMAIN secrets /\ pending[s][i] # <<>>)
        BY <1>6, <2>3 DEF CloseRedactor, WriterInv
    <2> QED
        BY <2>2, <2>3
<1>7. CASE RunReturns \/ Return \/ Cancel \/ AgentLeaves \/ UNCHANGED vars
    BY <1>7 DEF RunReturns, Return, Cancel, AgentLeaves, vars, writerVars, WriterInv
<1> QED
    BY <1>1, <1>2, <1>3, <1>4, <1>5, <1>6, <1>7 DEF Next

LEMMA NextEnd ==
    ASSUME TypeOK, WriterInv, EndInv, [Next]_vars PROVE EndInv'
<1>1. ASSUME NEW s \in Streams, Emit(s) PROVE EndInv'
    BY <1>1 DEF Emit, EndInv
<1>2. ASSUME NEW s \in Streams,
             AppendOutput(s) \/ AppendFails(s) \/ Relay(s) \/ Mark(s)
      PROVE  EndInv'
    <2>1. at[s] # "idle" /\ UNCHANGED <<process, closed, result>>
        BY <1>2 DEF AppendOutput, AppendFails, Relay, Mark, processVars
    <2>2. process # "returned" /\ result # "exit"
        BY <2>1 DEF EndInv
    <2> QED
        BY <2>1, <2>2 DEF EndInv
<1>3. ASSUME NEW k \in DOMAIN Closings, CloseRedactor(k) PROVE EndInv'
    BY <1>3 DEF CloseRedactor, EndInv
<1>4. CASE RunReturns
    BY <1>4 DEF RunReturns, EndInv
<1>5. CASE Return
    <2>1. /\ closed = 4 /\ closed' = closed /\ process' = "returned"
          /\ \A s \in Streams : at[s] = "idle"
          /\ UNCHANGED <<at, err>>
          /\ result' = IF result = "failed" \/ \E s \in Streams : err[s]
                       THEN "failed" ELSE "exit"
        BY <1>5 DEF Return, Closings, writerVars
    <2> QED
        BY <2>1 DEF EndInv
<1>6. CASE Cancel \/ AgentLeaves \/ UNCHANGED vars
    BY <1>6 DEF Cancel, AgentLeaves, vars, processVars, writerVars, EndInv
<1> QED
    BY <1>1, <1>2, <1>3, <1>4, <1>5, <1>6 DEF Next

-----------------------------------------------------------------------------
(* What is sent against what is stored.                                     *)

Frames(s) == [i \in DOMAIN Of(s, rows) |-> Frame(Of(s, rows)[i].data)]
Datas(s) == [i \in DOMAIN DataOf(s) |-> DataOf(s)[i].data]

(* What a writer owes the agent: between the store and the stream, the      *)
(* frame of what it has stored.  The last conjunct is about the marker,     *)
(* which nothing follows.                                                   *)
RelayOf(s) ==
    /\ err[s] => IsPrefix(Datas(s), Frames(s))
    /\ ~err[s] /\ (at[s] # "relay" \/ stored[s] = <<>>) => Datas(s) = Frames(s)
    /\ ~err[s] /\ at[s] = "relay" /\ stored[s] # <<>> =>
          Frames(s) = Append(Datas(s), Frame(stored[s])) /\ ~marked[s]
    /\ \A i \in DOMAIN Of(s, sent) :
          IsMarker(Of(s, sent)[i]) => i = Len(Of(s, sent)) /\ marked[s]

RelayInv == \A s \in Streams : RelayOf(s)

LEMMA OfAppend ==
    ASSUME NEW E, NEW entries \in Seq(E), NEW e \in E, NEW s
    PROVE  /\ Of(s, entries) \in Seq(E)
           /\ e.stream = s => Of(s, Append(entries, e)) = Append(Of(s, entries), e)
           /\ e.stream # s => Of(s, Append(entries, e)) = Of(s, entries)
<1> DEFINE more == Append(entries, e)
           now == {i \in DOMAIN entries : entries[i].stream = s}
           then == {i \in DOMAIN more : more[i].stream = s}
           n == Len(entries)
<1>1. /\ DOMAIN more = 1 .. n + 1 /\ DOMAIN entries = 1 .. n /\ n \in Nat
      /\ \A i \in 1 .. n : more[i] = entries[i]
      /\ more[n + 1] = e
    BY AppendProperties
<1>2. \A i \in 1 .. n : i \in then <=> i \in now
    BY <1>1
<1>3. n + 1 \in then <=> e.stream = s
    BY <1>1
<1>4. Of(s, entries) = Kept(entries, now) /\ Of(s, more) = Kept(more, then)
    BY DEF Of
<1> HIDE DEF now, then
<1>5. Kept(more, then) = IF n + 1 \in then THEN Append(Kept(entries, now), e)
                         ELSE Kept(entries, now)
    BY <1>2, KeptAppend
<1>6. Kept(entries, now) \in Seq(E)
    BY KeptType
<1> QED
    BY <1>3, <1>4, <1>5, <1>6

LEMMA DataOfAppend ==
    ASSUME TypeOK, NEW frame \in SentFrame, sent' = Append(sent, frame), NEW s
    PROVE  /\ DataOf(s) \in Seq(SentFrame)
           /\ frame.stream = s /\ ~IsMarker(frame) => DataOf(s)' = Append(DataOf(s), frame)
           /\ frame.stream # s \/ IsMarker(frame) => DataOf(s)' = DataOf(s)
<1> DEFINE now == {i \in DOMAIN sent : sent[i].stream = s /\ ~IsMarker(sent[i])}
           then == {i \in DOMAIN sent' : sent'[i].stream = s /\ ~IsMarker(sent'[i])}
           n == Len(sent)
<1>0. sent \in Seq(SentFrame)
    BY DEF TypeOK, SentFrame
<1>1. /\ DOMAIN sent' = 1 .. n + 1 /\ DOMAIN sent = 1 .. n /\ n \in Nat
      /\ \A i \in 1 .. n : sent'[i] = sent[i]
      /\ sent'[n + 1] = frame
    BY <1>0, AppendProperties
<1>2. \A i \in 1 .. n : i \in then <=> i \in now
    BY <1>1
<1>3. n + 1 \in then <=> frame.stream = s /\ ~IsMarker(frame)
    BY <1>1
<1>4. DataOf(s) = Kept(sent, now) /\ DataOf(s)' = Kept(sent', then)
    BY DEF DataOf, IsMarker
<1> HIDE DEF now, then
<1>5. Kept(Append(sent, frame), then)
        = IF n + 1 \in then THEN Append(Kept(sent, now), frame) ELSE Kept(sent, now)
    BY <1>0, <1>2, KeptAppend
<1>6. Kept(sent, now) \in Seq(SentFrame)
    BY <1>0, KeptType
<1> QED
    BY <1>3, <1>4, <1>5, <1>6

LEMMA MapAppend ==
    ASSUME NEW E, NEW S, NEW map \in [E -> S], NEW q \in Seq(E), NEW e \in E
    PROVE  LET mapped == [i \in DOMAIN q |-> map[q[i]]]
               more == Append(q, e)
           IN  /\ mapped \in Seq(S)
               /\ [i \in DOMAIN more |-> map[more[i]]] = Append(mapped, map[e])
<1> DEFINE mapped == [i \in DOMAIN q |-> map[q[i]]]
           more == Append(q, e)
           a == [i \in DOMAIN more |-> map[more[i]]]
           b == Append(mapped, map[e])
           n == Len(q)
<1>1. /\ DOMAIN q = 1 .. n /\ n \in Nat /\ \A i \in 1 .. n : q[i] \in E
      /\ more \in Seq(E) /\ DOMAIN more = 1 .. n + 1
      /\ \A i \in 1 .. n : more[i] = q[i]
      /\ more[n + 1] = e /\ \A i \in 1 .. n + 1 : more[i] \in E
    BY AppendProperties
<1> HIDE DEF more
<1>2. mapped \in [1 .. n -> S]
    BY <1>1
<1>3. mapped \in Seq(S) /\ Len(mapped) = n
    BY <1>1, <1>2, IsASeq, LenProperties
<1>4. a \in [1 .. n + 1 -> S]
    BY <1>1
<1>5. a \in Seq(S) /\ Len(a) = n + 1
    <2>1. n + 1 \in Nat
        BY <1>1
    <2> HIDE DEF a
    <2> QED
        BY <1>4, <2>1, IsASeq, LenProperties
<1>6. /\ \A i \in 1 .. n : a[i] = map[q[i]]
      /\ a[n + 1] = map[e]
    BY <1>1
<1>7. \A i \in 1 .. n : mapped[i] = map[q[i]]
    BY <1>1
<1> HIDE DEF mapped, a
<1>8. /\ b \in Seq(S) /\ Len(b) = n + 1 /\ b[n + 1] = map[e]
      /\ \A i \in 1 .. n : b[i] = mapped[i]
    <2>1. map[e] \in S
        OBVIOUS
    <2> HIDE DEF n
    <2> QED
        BY <1>3, <2>1, AppendProperties
<1> HIDE DEF b
<1>9. \A i \in 1 .. Len(a) : a[i] = b[i]
    BY <1>1, <1>5, <1>6, <1>7, <1>8
<1>10. a = b
    BY <1>5, <1>8, <1>9, SeqEqual
<1> QED
    BY <1>3, <1>10 DEF mapped, more, a, b

FrameData == Seq(Bytes \cup {Marker, Broken})

LEMMA FramesAppend ==
    ASSUME TypeOK, NEW row \in Row, rows' = Append(rows, row), NEW s
    PROVE  /\ row.stream = s => Frames(s)' = Append(Frames(s), Frame(row.data))
           /\ row.stream # s => Frames(s)' = Frames(s)
<1> DEFINE map == [r \in Row |-> Frame(r.data)]
           q == Of(s, rows)
<1>1. rows \in Seq(Row)
    BY UsedType
<1>2. /\ Of(s, rows) \in Seq(Row)
      /\ row.stream = s => Of(s, Append(rows, row)) = Append(Of(s, rows), row)
      /\ row.stream # s => Of(s, Append(rows, row)) = Of(s, rows)
    BY <1>1, OfAppend
<1>3. map \in [Row -> FrameData]
    <2>1. \A r \in Row : r.data \in Seq(Bytes)
        BY DEF Row
    <2>2. \A r \in Row : Frame(r.data) \in FrameData
        BY <2>1, FrameType DEF FrameData
    <2> QED
        BY <2>2
<1>4. \A p \in Seq(Row) :
         [i \in DOMAIN p |-> Frame(p[i].data)] = [i \in DOMAIN p |-> map[p[i]]]
    <2>1. ASSUME NEW p \in Seq(Row), NEW i \in DOMAIN p
          PROVE  Frame(p[i].data) = map[p[i]]
        <3>1. p[i] \in Row
            OBVIOUS
        <3> QED
            BY <3>1
    <2> HIDE DEF map
    <2> QED
        BY <2>1
<1>5. Frames(s) = [i \in DOMAIN q |-> map[q[i]]]
    BY <1>2, <1>4 DEF Frames
<1>6. CASE row.stream = s
    <2>1. Of(s, rows') = Append(q, row) /\ Append(q, row) \in Seq(Row)
        BY <1>2, <1>6, AppendProperties
    <2>2. Frames(s)' = [i \in DOMAIN Append(q, row) |-> map[Append(q, row)[i]]]
        BY <1>4, <2>1 DEF Frames
    <2> HIDE DEF map, q
    <2>3. [i \in DOMAIN Append(q, row) |-> map[Append(q, row)[i]]]
            = Append([i \in DOMAIN q |-> map[q[i]]], map[row])
        <3>1. q \in Seq(Row)
            BY <1>2 DEF q
        <3> QED
            BY <1>3, <3>1, MapAppend
    <2>4. map[row] = Frame(row.data)
        BY DEF map
    <2> QED
        BY <1>5, <1>6, <2>2, <2>3, <2>4
<1>7. CASE row.stream # s
    BY <1>2, <1>7 DEF Frames
<1> QED
    BY <1>6, <1>7

LEMMA DatasAppend ==
    ASSUME TypeOK, NEW frame \in SentFrame, sent' = Append(sent, frame), NEW s
    PROVE  /\ frame.stream = s /\ ~IsMarker(frame) =>
                 Datas(s)' = Append(Datas(s), frame.data)
           /\ frame.stream # s \/ IsMarker(frame) => Datas(s)' = Datas(s)
<1> DEFINE map == [r \in SentFrame |-> r.data]
           q == DataOf(s)
<1>2. /\ DataOf(s) \in Seq(SentFrame)
      /\ frame.stream = s /\ ~IsMarker(frame) => DataOf(s)' = Append(DataOf(s), frame)
      /\ frame.stream # s \/ IsMarker(frame) => DataOf(s)' = DataOf(s)
    BY DataOfAppend
<1>3. map \in [SentFrame -> FrameData]
    <2>1. \A r \in SentFrame : r.data \in FrameData
        BY DEF SentFrame, FrameData
    <2> QED
        BY <2>1
<1>4. \A p \in Seq(SentFrame) :
         [i \in DOMAIN p |-> p[i].data] = [i \in DOMAIN p |-> map[p[i]]]
    <2>1. ASSUME NEW p \in Seq(SentFrame), NEW i \in DOMAIN p
          PROVE  p[i].data = map[p[i]]
        <3>1. p[i] \in SentFrame
            OBVIOUS
        <3> QED
            BY <3>1
    <2> HIDE DEF map
    <2> QED
        BY <2>1
<1>5. Datas(s) = [i \in DOMAIN q |-> map[q[i]]]
    BY <1>2, <1>4 DEF Datas
<1>6. CASE frame.stream = s /\ ~IsMarker(frame)
    <2>1. DataOf(s)' = Append(q, frame) /\ Append(q, frame) \in Seq(SentFrame)
        BY <1>2, <1>6, AppendProperties
    <2>2. Datas(s)' = [i \in DOMAIN Append(q, frame) |-> map[Append(q, frame)[i]]]
        BY <1>4, <2>1 DEF Datas
    <2> HIDE DEF map, q
    <2>3. [i \in DOMAIN Append(q, frame) |-> map[Append(q, frame)[i]]]
            = Append([i \in DOMAIN q |-> map[q[i]]], map[frame])
        <3>1. q \in Seq(SentFrame)
            BY <1>2 DEF q
        <3> QED
            BY <1>3, <3>1, MapAppend
    <2>4. map[frame] = frame.data
        BY DEF map
    <2> QED
        BY <1>5, <1>6, <2>2, <2>3, <2>4
<1>7. CASE frame.stream # s \/ IsMarker(frame)
    BY <1>2, <1>7 DEF Datas
<1> QED
    BY <1>6, <1>7

LEMMA FramesType ==
    ASSUME TypeOK, NEW s
    PROVE  Frames(s) \in Seq(FrameData) /\ Datas(s) \in Seq(FrameData)
<1>1. Of(s, rows) \in Seq(Row)
    BY UsedType, KeptType DEF Of
<1>2. DataOf(s) \in Seq(SentFrame)
    <2>1. sent \in Seq(SentFrame)
        BY DEF TypeOK, SentFrame
    <2> QED
        BY <2>1, KeptType DEF DataOf
<1>3. \A r \in Row : Frame(r.data) \in FrameData
    <2>1. \A r \in Row : r.data \in Seq(Bytes)
        BY DEF Row
    <2> QED
        BY <2>1, FrameType DEF FrameData
<1>4. \A r \in SentFrame : r.data \in FrameData
    BY DEF SentFrame, FrameData
<1>5. \A q \in Seq(Row) : [i \in DOMAIN q |-> Frame(q[i].data)] \in Seq(FrameData)
    <2> SUFFICES ASSUME NEW q \in Seq(Row)
                 PROVE  [i \in DOMAIN q |-> Frame(q[i].data)] \in Seq(FrameData)
        OBVIOUS
    <2>1. Len(q) \in Nat /\ DOMAIN q = 1 .. Len(q) /\ \A i \in 1 .. Len(q) : q[i] \in Row
        OBVIOUS
    <2>2. [i \in DOMAIN q |-> Frame(q[i].data)] \in [1 .. Len(q) -> FrameData]
        BY <1>3, <2>1
    <2> QED
        BY <2>1, <2>2, IsASeq
<1>6. \A q \in Seq(SentFrame) : [i \in DOMAIN q |-> q[i].data] \in Seq(FrameData)
    <2> SUFFICES ASSUME NEW q \in Seq(SentFrame)
                 PROVE  [i \in DOMAIN q |-> q[i].data] \in Seq(FrameData)
        OBVIOUS
    <2>1. Len(q) \in Nat /\ DOMAIN q = 1 .. Len(q)
          /\ \A i \in 1 .. Len(q) : q[i] \in SentFrame
        OBVIOUS
    <2>2. [i \in DOMAIN q |-> q[i].data] \in [1 .. Len(q) -> FrameData]
        BY <1>4, <2>1
    <2> QED
        BY <2>1, <2>2, IsASeq
<1> QED
    BY <1>1, <1>2, <1>5, <1>6 DEF Frames, Datas

LEMMA PrefixSelf ==
    ASSUME NEW B, NEW a \in Seq(B)
    PROVE  IsPrefix(a, a)
    BY DEF IsPrefix

LEMMA PrefixConcat ==
    ASSUME NEW B, NEW a \in Seq(B), NEW b \in Seq(B)
    PROVE  IsPrefix(a, a \o b)
<1>1. a \o b \in Seq(B) /\ Len(a \o b) = Len(a) + Len(b) /\ Len(a) \in Nat /\ Len(b) \in Nat
    BY ConcatProperties
<1>2. SubSeq(a \o b, 1, Len(a)) = a
    BY ConcatParts
<1>3. SubSeq(a, 1, Len(a)) = a
    BY SubSeqFull
<1> QED
    BY <1>1, <1>2, <1>3 DEF IsPrefix

LEMMA PrefixAppend ==
    ASSUME NEW B, NEW a \in Seq(B), NEW e \in B
    PROVE  IsPrefix(a, Append(a, e))
<1>1. <<e>> \in Seq(B)
    OBVIOUS
<1>2. Append(a, e) = a \o <<e>>
    BY AppendIsConcat
<1> QED
    BY <1>1, <1>2, PrefixConcat

(* A step that neither stores, sends nor begins to relay.                   *)
LEMMA RelayFrame ==
    ASSUME RelayInv, NEW r \in Streams, UNCHANGED <<rows, sent>>,
           err'[r] = err[r], stored'[r] = stored[r], marked'[r] = marked[r],
           (at[r] = "relay" /\ stored[r] # <<>>) <=> (at'[r] = "relay" /\ stored[r] # <<>>)
    PROVE  RelayOf(r)'
    BY DEF RelayInv, RelayOf, Frames, Datas, DataOf, IsMarker

LEMMA AppendOutputRelay ==
    ASSUME TypeOK, LimitInv, WriterInv, RelayInv, NEW s \in Streams,
           AppendOutput(s)
    PROVE  RelayInv'
<1>0. /\ at[s] = "append" /\ at' = [at EXCEPT ![s] = "relay"]
      /\ ~Full => /\ stored' = [stored EXCEPT ![s] = DataStored(s)]
                  /\ rows' = Append(rows, NewRow(s))
                  /\ NewRow(s) \in Row /\ Used < limit
      /\ Full => stored' = [stored EXCEPT ![s] = <<>>] /\ rows' = rows
      /\ UNCHANGED <<err, marked, sent>>
    BY Appended
<1>1. /\ stored \in [Streams -> Seq(Bytes)] /\ at \in [Streams -> Standing]
    BY DEF TypeOK, Standing
<1>2. /\ at'[s] = "relay" /\ ~err[s] /\ Datas(s) = Frames(s)
      /\ \A r \in Streams \ {s} : at'[r] = at[r] /\ stored'[r] = stored[r]
    BY <1>0, <1>1 DEF WriterInv, RelayInv, RelayOf
<1>3. \A r : Datas(r)' = Datas(r)
    BY <1>0 DEF Datas, DataOf, IsMarker
<1>4. /\ \A r \in Streams : \A i \in DOMAIN Of(r, sent') :
            IsMarker(Of(r, sent')[i]) => i = Len(Of(r, sent')) /\ marked'[r]
    BY <1>0 DEF RelayInv, RelayOf
<1>5. CASE Full
    <2>1. \A r : Frames(r)' = Frames(r)
        BY <1>0, <1>5 DEF Frames
    <2>2. stored'[s] = <<>>
        BY <1>0, <1>1, <1>5
    <2>3. RelayOf(s)'
        BY <1>0, <1>2, <1>3, <1>4, <2>1, <2>2 DEF RelayOf, IsMarker
    <2>4. \A r \in Streams \ {s} : RelayOf(r)'
        BY <1>0, <1>2, <1>5, RelayFrame
    <2> QED
        BY <2>3, <2>4 DEF RelayInv
<1>6. CASE ~Full
    <2> DEFINE data == DataStored(s)
    <2>1. data \in Seq(Bytes) /\ data # <<>>
        BY <1>0, <1>6, DataStoredType DEF WriterInv
    <2>2. NewRow(s).data = data /\ NewRow(s).stream = s
        BY DEF NewRow
    <2>3. stored'[s] = data
        BY <1>0, <1>1, <1>6
    <2> HIDE DEF data
    <2>4. Frames(s)' = Append(Frames(s), Frame(data))
        BY <1>0, <1>6, <2>2, FramesAppend
    <2>5. ~marked[s]
        BY <1>0, <1>6, UsedType DEF LimitInv
    <2>6. RelayOf(s)'
        BY <1>0, <1>2, <1>3, <1>4, <2>1, <2>3, <2>4, <2>5 DEF RelayOf, IsMarker
    <2>7. ASSUME NEW r \in Streams \ {s} PROVE RelayOf(r)'
        <3>1. Frames(r)' = Frames(r)
            BY <1>0, <1>6, <2>2, FramesAppend
        <3> QED
            BY <1>0, <1>2, <1>3, <1>4, <3>1 DEF RelayInv, RelayOf, IsMarker
    <2> QED
        BY <2>6, <2>7 DEF RelayInv
<1> QED
    BY <1>5, <1>6

LEMMA AppendFailsRelay ==
    ASSUME TypeOK, WriterInv, RelayInv, NEW s \in Streams, AppendFails(s)
    PROVE  RelayInv'
<1>1. /\ at[s] = "append" /\ Fail(s) /\ UNCHANGED <<rows, sent, stored, marked>>
    BY DEF AppendFails
<1>2. /\ err'[s] /\ at'[s] = "idle"
      /\ \A r \in Streams \ {s} : err'[r] = err[r] /\ at'[r] = at[r]
    BY <1>1, FailEffect
<1>3. \A r \in Streams \ {s} : RelayOf(r)'
    BY <1>1, <1>2, RelayFrame
<1>4. Frames(s)' = Frames(s) /\ Datas(s)' = Datas(s)
    BY <1>1 DEF Frames, Datas, DataOf, IsMarker
<1>5. Datas(s) = Frames(s)
    BY <1>1 DEF WriterInv, RelayInv, RelayOf
<1>6. IsPrefix(Datas(s), Frames(s))
    BY <1>5, FramesType, PrefixSelf
<1>7. RelayOf(s)'
    BY <1>1, <1>2, <1>4, <1>6 DEF RelayInv, RelayOf, IsMarker
<1> QED
    BY <1>3, <1>7 DEF RelayInv

(* The frames of the other stream are not those of this one.                *)
LEMMA SentElsewhere ==
    ASSUME TypeOK, NEW s \in Streams, NEW frame \in SentFrame, frame.stream = s,
           sent' = Append(sent, frame), NEW r \in Streams \ {s}
    PROVE  Datas(r)' = Datas(r) /\ Of(r, sent') = Of(r, sent)
<1>1. sent \in Seq(SentFrame)
    BY DEF TypeOK, SentFrame
<1>2. frame.stream # r
    OBVIOUS
<1> QED
    BY <1>1, <1>2, OfAppend, DatasAppend

LEMMA RelayRelay ==
    ASSUME TypeOK, WriterInv, RelayInv, NEW s \in Streams, Relay(s)
    PROVE  RelayInv'
<1>1. at[s] = "relay" /\ UNCHANGED <<stored, marked, rows>> /\ ~err[s]
    BY DEF Relay, WriterInv
<1>2. /\ at \in [Streams -> Standing] /\ stored[s] \in Seq(Bytes)
      /\ sent \in Seq(SentFrame)
    BY DEF TypeOK, Standing, SentFrame
<1>3. \A r : Frames(r)' = Frames(r)
    BY <1>1 DEF Frames
<1>4. CASE stored[s] # <<>> /\ left
    <2>1. Fail(s) /\ UNCHANGED sent
        BY <1>4 DEF Relay
    <2>2. /\ err'[s] /\ at'[s] = "idle"
          /\ \A r \in Streams \ {s} : err'[r] = err[r] /\ at'[r] = at[r]
        BY <2>1, FailEffect
    <2>3. \A r \in Streams \ {s} : RelayOf(r)'
        BY <1>1, <2>1, <2>2, RelayFrame
    <2>4. Datas(s)' = Datas(s)
        BY <2>1 DEF Datas, DataOf, IsMarker
    <2>5. IsPrefix(Datas(s), Frames(s))
        <3>1. Frames(s) = Append(Datas(s), Frame(stored[s]))
            BY <1>1, <1>4 DEF RelayInv, RelayOf
        <3>2. Frame(stored[s]) \in FrameData /\ Datas(s) \in Seq(FrameData)
            BY <1>2, FrameType, FramesType DEF FrameData
        <3> QED
            BY <3>1, <3>2, PrefixAppend
    <2>6. RelayOf(s)'
        BY <1>1, <1>3, <2>1, <2>2, <2>4, <2>5 DEF RelayInv, RelayOf, IsMarker
    <2> QED
        BY <2>3, <2>6 DEF RelayInv
<1>5. CASE ~(stored[s] # <<>> /\ left)
    <2> DEFINE frame == [stream |-> s, data |-> Frame(stored[s])]
    <2>1. /\ stored[s] = <<>> => sent' = sent
          /\ stored[s] # <<>> => sent' = Append(sent, frame)
          /\ UNCHANGED err
          /\ (at' = [at EXCEPT ![s] = "mark"]) \/ Continue(s)
        BY <1>5 DEF Relay
    <2>2. /\ at'[s] # "relay" /\ \A r \in Streams \ {s} : at'[r] = at[r]
        <3>1. CASE at' = [at EXCEPT ![s] = "mark"]
            BY <1>2, <3>1
        <3>2. CASE Continue(s)
            BY <3>2, ContinueEffect
        <3> QED
            BY <2>1, <3>1, <3>2
    <2>3. /\ frame.stream = s /\ ~IsMarker(frame) /\ frame \in SentFrame
          /\ frame.data = Frame(stored[s])
        <3>1. Frame(stored[s]) # <<Marker>>
              /\ Frame(stored[s]) \in Seq(Bytes \cup {Marker, Broken})
            BY <1>2, FrameType
        <3> QED
            BY <3>1 DEF IsMarker, SentFrame
    <2> HIDE DEF frame
    <2>4. CASE stored[s] = <<>>
        <3>1. \A r \in Streams \ {s} : RelayOf(r)'
            BY <1>1, <2>1, <2>2, <2>4, RelayFrame
        <3>2. Datas(s)' = Datas(s) /\ Of(s, sent') = Of(s, sent)
            BY <2>1, <2>4 DEF Datas, DataOf, IsMarker
        <3>3. RelayOf(s)'
            BY <1>1, <1>3, <2>1, <2>2, <2>4, <3>2 DEF RelayInv, RelayOf, IsMarker
        <3> QED
            BY <3>1, <3>3 DEF RelayInv
    <2>5. CASE stored[s] # <<>>
        <3>1. ASSUME NEW r \in Streams \ {s} PROVE RelayOf(r)'
            <4>1. Datas(r)' = Datas(r) /\ Of(r, sent') = Of(r, sent)
                BY <2>1, <2>3, <2>5, SentElsewhere
            <4> QED
                BY <1>1, <1>3, <2>1, <2>2, <4>1 DEF RelayInv, RelayOf, IsMarker
        <3>2. Frames(s) = Append(Datas(s), frame.data) /\ ~marked[s]
            BY <1>1, <2>3, <2>5 DEF RelayInv, RelayOf
        <3>3. Datas(s)' = Append(Datas(s), frame.data)
            BY <2>1, <2>3, <2>5, DatasAppend
        <3>4. /\ Of(s, sent') = Append(Of(s, sent), frame)
              /\ Of(s, sent) \in Seq(SentFrame)
            <4>1. sent' = Append(sent, frame)
                BY <2>1, <2>5
            <4> QED
                BY <1>2, <2>3, <4>1, OfAppend
        <3>5. \A i \in DOMAIN Of(s, sent') : ~IsMarker(Of(s, sent')[i])
            <4> DEFINE q == Of(s, sent)
            <4>1. \A i \in DOMAIN q : ~IsMarker(q[i])
                BY <3>2 DEF RelayInv, RelayOf
            <4>2. /\ DOMAIN Append(q, frame) = 1 .. Len(q) + 1
                  /\ DOMAIN q = 1 .. Len(q) /\ Len(q) \in Nat
                  /\ \A i \in 1 .. Len(q) : Append(q, frame)[i] = q[i]
                  /\ Append(q, frame)[Len(q) + 1] = frame
                BY <2>3, <3>4, AppendProperties
            <4> HIDE DEF q
            <4>3. \A i \in DOMAIN Append(q, frame) : ~IsMarker(Append(q, frame)[i])
                BY <2>3, <4>1, <4>2
            <4> QED
                BY <3>4, <4>3 DEF q
        <3>6. RelayOf(s)'
            BY <1>1, <1>3, <2>1, <2>2, <3>2, <3>3, <3>5 DEF RelayOf, IsMarker
        <3> QED
            BY <3>1, <3>6 DEF RelayInv
    <2> QED
        BY <2>4, <2>5
<1> QED
    BY <1>4, <1>5

LEMMA MarkRelay ==
    ASSUME TypeOK, WriterInv, RelayInv, NEW s \in Streams, Mark(s)
    PROVE  RelayInv'
<1>1. /\ at[s] = "mark" /\ UNCHANGED <<stored, rows>> /\ ~err[s] /\ ~marked[s]
      /\ marked' = [marked EXCEPT ![s] = TRUE]
    BY DEF Mark, WriterInv
<1>2. /\ at \in [Streams -> Standing] /\ marked \in [Streams -> BOOLEAN]
      /\ sent \in Seq(SentFrame)
    BY DEF TypeOK, Standing, SentFrame
<1>3. \A r : Frames(r)' = Frames(r)
    BY <1>1 DEF Frames
<1>4. /\ marked'[s] /\ \A r \in Streams \ {s} : marked'[r] = marked[r]
    BY <1>1, <1>2
<1>5. Datas(s) = Frames(s) /\ \A i \in DOMAIN Of(s, sent) : ~IsMarker(Of(s, sent)[i])
    BY <1>1 DEF RelayInv, RelayOf
<1>6. CASE left
    <2>1. Fail(s) /\ UNCHANGED sent
        BY <1>6 DEF Mark
    <2>2. /\ err'[s] /\ at'[s] = "idle"
          /\ \A r \in Streams \ {s} : err'[r] = err[r] /\ at'[r] = at[r]
        BY <2>1, FailEffect
    <2>3. \A r \in Streams \ {s} : RelayOf(r)'
        BY <1>1, <1>4, <2>1, <2>2, RelayFrame
    <2>4. Datas(s)' = Datas(s)
        BY <2>1 DEF Datas, DataOf, IsMarker
    <2>5. IsPrefix(Datas(s), Frames(s))
        BY <1>5, FramesType, PrefixSelf
    <2>6. RelayOf(s)'
        BY <1>1, <1>3, <1>5, <2>1, <2>2, <2>4, <2>5 DEF RelayOf, IsMarker
    <2> QED
        BY <2>3, <2>6 DEF RelayInv
<1>7. CASE ~left
    <2> DEFINE frame == [stream |-> s, data |-> <<Marker>>]
    <2>1. /\ sent' = Append(sent, frame) /\ UNCHANGED err /\ Continue(s)
        BY <1>7 DEF Mark
    <2>2. /\ at'[s] # "relay" /\ \A r \in Streams \ {s} : at'[r] = at[r]
        BY <2>1, ContinueEffect
    <2>3. frame.stream = s /\ IsMarker(frame) /\ frame \in SentFrame
        BY DEF IsMarker, SentFrame
    <2> HIDE DEF frame
    <2>4. ASSUME NEW r \in Streams \ {s} PROVE RelayOf(r)'
        <3>1. Datas(r)' = Datas(r) /\ Of(r, sent') = Of(r, sent)
            BY <2>1, <2>3, SentElsewhere
        <3> QED
            BY <1>1, <1>3, <1>4, <2>1, <2>2, <3>1 DEF RelayInv, RelayOf, IsMarker
    <2>5. Datas(s)' = Datas(s)
        BY <2>1, <2>3, DatasAppend
    <2>6. /\ Of(s, sent') = Append(Of(s, sent), frame)
          /\ Of(s, sent) \in Seq(SentFrame)
        BY <1>2, <2>1, <2>3, OfAppend
    <2>7. \A i \in DOMAIN Of(s, sent') :
             IsMarker(Of(s, sent')[i]) => i = Len(Of(s, sent'))
        <3> DEFINE q == Of(s, sent)
        <3>1. \A i \in DOMAIN q : ~IsMarker(q[i])
            BY <1>5
        <3>2. /\ DOMAIN Append(q, frame) = 1 .. Len(q) + 1
              /\ Len(Append(q, frame)) = Len(q) + 1
              /\ DOMAIN q = 1 .. Len(q) /\ Len(q) \in Nat
              /\ \A i \in 1 .. Len(q) : Append(q, frame)[i] = q[i]
            BY <2>3, <2>6, AppendProperties
        <3> HIDE DEF q
        <3>3. \A i \in DOMAIN Append(q, frame) :
                 IsMarker(Append(q, frame)[i]) => i = Len(Append(q, frame))
            BY <3>1, <3>2
        <3> QED
            BY <2>6, <3>3 DEF q
    <2>8. RelayOf(s)'
        BY <1>1, <1>3, <1>4, <1>5, <2>1, <2>2, <2>5, <2>7 DEF RelayOf, IsMarker
    <2> QED
        BY <2>4, <2>8 DEF RelayInv
<1> QED
    BY <1>6, <1>7

LEMMA InitRelay ==
    ASSUME Init PROVE RelayInv
<1>1. TypeOK
    BY InitType
<1>2. rows = <<>> /\ sent = <<>>
    BY DEF Init
<1>3. \A s : Of(s, rows) = <<>> /\ Of(s, sent) = <<>> /\ DataOf(s) = <<>>
    BY <1>2, KeptEmpty DEF Of, DataOf
<1>4. \A s : Frames(s) = <<>> /\ Datas(s) = <<>>
    BY <1>3 DEF Frames, Datas
<1>5. \A s \in Streams : ~err[s] /\ at[s] = "idle"
    BY DEF Init
<1>6. \A s \in Streams : RelayOf(s)
    BY <1>3, <1>4, <1>5 DEF RelayOf
<1> QED
    BY <1>6 DEF RelayInv

LEMMA NextRelay ==
    ASSUME TypeOK, LimitInv, WriterInv, RelayInv, [Next]_vars PROVE RelayInv'
<1>1. ASSUME NEW s \in Streams, Emit(s) PROVE RelayInv'
    <2>1. \A r \in Streams : at'[r] = at[r] \/ (r = s /\ at'[r] = "append")
        BY <1>1, WriteAt DEF Emit
    <2>2. at[s] = "idle" /\ UNCHANGED <<rows, sent, err, stored, marked>>
        BY <1>1 DEF Emit
    <2>3. \A r \in Streams : RelayOf(r)'
        BY <2>1, <2>2, RelayFrame
    <2> QED
        BY <2>3 DEF RelayInv
<1>2. ASSUME NEW k \in DOMAIN Closings, CloseRedactor(k) PROVE RelayInv'
    <2> DEFINE s == Closings[k][1]
               i == Closings[k][2]
    <2>1. s \in Streams /\ (\A r \in Streams : at[r] = "idle")
          /\ UNCHANGED <<rows, sent, err, stored, marked>>
        BY <1>2, ClosingsType DEF CloseRedactor
    <2>2. \/ Write(s, Chain(s, i, <<>>, TRUE))
          \/ UNCHANGED at
        BY <1>2 DEF CloseRedactor
    <2> HIDE DEF s, i
    <2>3. \A r \in Streams : at'[r] = at[r] \/ at'[r] = "append"
        <3>1. ASSUME NEW down, Write(s, down)
              PROVE  \A r \in Streams : at'[r] = at[r] \/ at'[r] = "append"
            BY <2>1, <3>1, WriteAt
        <3> QED
            BY <2>2, <3>1
    <2>4. \A r \in Streams : at[r] # "relay" /\ at'[r] # "relay"
        BY <2>1, <2>3
    <2>5. \A r \in Streams : RelayOf(r)'
        BY <2>1, <2>4, RelayFrame
    <2> QED
        BY <2>5 DEF RelayInv
<1>3. CASE RunReturns \/ Return \/ Cancel \/ AgentLeaves \/ UNCHANGED vars
    <2>1. UNCHANGED <<rows, sent, err, stored, marked, at>>
        BY <1>3 DEF RunReturns, Return, Cancel, AgentLeaves, vars, writerVars
    <2>2. \A r \in Streams : RelayOf(r)'
        BY <2>1, RelayFrame
    <2> QED
        BY <2>2 DEF RelayInv
<1> QED
    BY <1>1, <1>2, <1>3, AppendOutputRelay, AppendFailsRelay, RelayRelay, MarkRelay
       DEF Next

LEMMA RelayMeans ==
    ASSUME TypeOK, RelayInv PROVE RelayFollowsStore
<1>1. ASSUME NEW s \in Streams
      PROVE  /\ IsPrefix(Datas(s), Frames(s))
             /\ at[s] # "relay" /\ ~err[s] => Datas(s) = Frames(s)
             /\ \A i \in DOMAIN Of(s, sent) :
                   IsMarker(Of(s, sent)[i]) => i = Len(Of(s, sent))
    <2>0. RelayOf(s) /\ Frames(s) \in Seq(FrameData) /\ Datas(s) \in Seq(FrameData)
        BY FramesType DEF RelayInv
    <2>1. CASE err[s]
        BY <2>0, <2>1 DEF RelayOf
    <2>2. CASE ~err[s] /\ Datas(s) = Frames(s)
        BY <2>0, <2>2, PrefixSelf DEF RelayOf
    <2>3. CASE ~err[s] /\ at[s] = "relay" /\ stored[s] # <<>>
        <3>1. Frames(s) = Append(Datas(s), Frame(stored[s]))
            BY <2>0, <2>3 DEF RelayOf
        <3>2. Frame(stored[s]) \in FrameData
            <4>1. stored[s] \in Seq(Bytes)
                BY DEF TypeOK
            <4> QED
                BY <4>1, FrameType DEF FrameData
        <3>3. IsPrefix(Datas(s), Frames(s))
            BY <2>0, <3>1, <3>2, PrefixAppend
        <3> QED
            BY <2>0, <2>3, <3>3 DEF RelayOf
    <2> QED
        BY <2>0, <2>1, <2>2, <2>3 DEF RelayOf
<1> QED
    BY <1>1 DEF RelayFollowsStore, Frames, Datas

(* The agent is sent, stream by stream, exactly the rows in their order,    *)
(* never before they are written, and nothing after the marker: whatever    *)
(* the pieces, the limit, and the failures of store and agent.              *)
THEOREM RelayedAsStored == Spec => []RelayFollowsStore
<1> DEFINE IInv == TypeOK /\ LimitInv /\ WriterInv /\ RelayInv
<1>1. Init => IInv
    BY InitType, InitLimit, InitWriter, InitRelay
<1>2. IInv /\ [Next]_vars => IInv'
    BY NextType, NextLimit, NextWriter, NextRelay
<1>3. IInv => RelayFollowsStore
    BY RelayMeans
<1> QED
    BY <1>1, <1>2, <1>3, PTL DEF Spec

-----------------------------------------------------------------------------
(* What is stored against the text.                                         *)

Output(s) == Joined(Of(s, rows))
Emitted(s) == SubSeq(text[s], 1, emitted[s])

(* What may still come of the text, and what a stream makes of the whole.   *)
Rests == IF process = "running" THEN Seq(Bytes) ELSE {<<>>}
Whole(s, rest) == RedactMany(Emitted(s) \o rest, secrets)

(* What an auditWriter has still to store after the piece under way.        *)
Remaining(s) ==
    IF at[s] = "append" THEN todo[s]
    ELSE IF at[s] = "idle" THEN <<>> ELSE NextPieces(s)

(* Whatever comes, the rows hold a beginning of what is made of the whole;  *)
(* and until something fails or is cut, the rest of it is what the writer   *)
(* has still to store and what the redactors will make of what they hold.   *)
StoredOf(s, rest) ==
    /\ IsPrefix(Output(s), Whole(s, rest))
    /\ ~err[s] /\ ~truncated[s] =>
          Whole(s, rest)
            = Output(s) \o (Remaining(s) \o Through(secrets, trimmed[s], rest))

CloseIndex(s, i) == IF s = "stdout" THEN i ELSE 2 + i
ClosedOf(s) ==
    \A i \in DOMAIN secrets :
        closed >= CloseIndex(s, i) /\ ~err[s] => trimmed[s][i] = <<>>

StoredInv ==
    Separable =>
        \A s \in Streams : (\A rest \in Rests : StoredOf(s, rest)) /\ ClosedOf(s)

LEMMA OutputAppend ==
    ASSUME TypeOK, NEW row \in Row, rows' = Append(rows, row), NEW s
    PROVE  /\ row.stream = s => Output(s)' = Output(s) \o row.data
           /\ row.stream # s => Output(s)' = Output(s)
<1>1. rows \in Seq(Row)
    BY UsedType
<1>2. /\ Of(s, rows) \in Seq(Row)
      /\ row.stream = s => Of(s, rows') = Append(Of(s, rows), row)
      /\ row.stream # s => Of(s, rows') = Of(s, rows)
    BY <1>1, OfAppend
<1>3. \A q \in Seq(Row) : Joined(Append(q, row)) = Joined(q) \o row.data
    BY JoinedType
<1> QED
    BY <1>2, <1>3 DEF Output

LEMMA OutputType ==
    ASSUME TypeOK, NEW s
    PROVE  Output(s) \in Seq(Bytes)
<1>1. Of(s, rows) \in Seq(Row)
    BY UsedType, KeptType DEF Of
<1> QED
    BY <1>1, JoinedType DEF Output

LEMMA ThroughType ==
    ASSUME TypeOK, NEW held \in Holding, NEW data \in Seq(Bytes)
    PROVE  Through(secrets, held, data) \in Seq(Bytes)
<1>1. /\ Alphabet(Bytes) /\ 1 \in DOMAIN secrets
      /\ secrets[1] \in Seq(Bytes) /\ held[1] \in Seq(Bytes)
    BY SecretsType DEF Holding
<1>2. held[1] \o data \in Seq(Bytes)
    BY <1>1, ConcatProperties
<1>3. Redact(held[1] \o data, secrets[1]) \in Seq(Bytes)
    BY <1>1, <1>2, RedactType
<1>4. CASE Len(secrets) = 1
    BY <1>3, <1>4 DEF Through
<1>5. CASE Len(secrets) = 2
    <2> DEFINE first == Redact(held[1] \o data, secrets[1])
    <2>1. secrets[2] \in Seq(Bytes) /\ held[2] \in Seq(Bytes)
        BY <1>5, SecretsType DEF Holding
    <2>2. first \in Seq(Bytes)
        BY <1>3
    <2> HIDE DEF first
    <2>3. held[2] \o first \in Seq(Bytes)
        BY <2>1, <2>2, ConcatProperties
    <2>4. Redact(held[2] \o first, secrets[2]) \in Seq(Bytes)
        BY <1>1, <2>1, <2>3, RedactType
    <2> QED
        BY <1>5, <2>4 DEF Through, first
<1> QED
    BY <1>4, <1>5, SecretsType

LEMMA RemainingType ==
    ASSUME TypeOK, NEW s \in Streams
    PROVE  Remaining(s) \in Seq(Bytes)
<1>1. todo[s] \in Seq(Bytes) /\ <<>> \in Seq(Bytes)
    BY DEF TypeOK
<1> QED
    BY <1>1, PiecesType DEF Remaining

LEMMA HeldType ==
    ASSUME TypeOK, NEW s \in Streams
    PROVE  trimmed[s] \in Holding /\ pending[s] \in Holding
    BY DEF TypeOK, Holding

LEMMA RestsType == Rests \subseteq Seq(Bytes)
<1>1. {<<>>} \subseteq Seq(Bytes)
    OBVIOUS
<1>2. CASE process = "running"
    BY <1>2 DEF Rests
<1>3. CASE process # "running"
    BY <1>1, <1>3 DEF Rests
<1> QED
    BY <1>2, <1>3

(* A step that stores nothing of a stream, and takes nothing from what      *)
(* comes out of its redactors.                                              *)
LEMMA StoredFrame ==
    ASSUME NEW r \in Streams,
           UNCHANGED <<text, secrets>>, emitted'[r] = emitted[r],
           Output(r)' = Output(r),
           ~err'[r] /\ ~truncated'[r] =>
               /\ ~err[r] /\ ~truncated[r] /\ trimmed'[r] = trimmed[r]
               /\ Remaining(r)' = Remaining(r),
           Rests' \subseteq Rests,
           \A rest \in Rests : StoredOf(r, rest)
    PROVE  \A rest \in Rests' : StoredOf(r, rest)'
<1> SUFFICES ASSUME NEW rest \in Rests' PROVE StoredOf(r, rest)'
    OBVIOUS
<1>1. StoredOf(r, rest)
    OBVIOUS
<1>2. Whole(r, rest)' = Whole(r, rest)
    BY DEF Whole, Emitted
<1>3. ~err'[r] /\ ~truncated'[r] =>
         Whole(r, rest)'
           = Output(r)' \o (Remaining(r)' \o Through(secrets', trimmed'[r], rest))
    BY <1>1, <1>2 DEF StoredOf
<1>4. IsPrefix(Output(r)', Whole(r, rest)')
    BY <1>1, <1>2 DEF StoredOf
<1> QED
    BY <1>3, <1>4 DEF StoredOf

LEMMA ClosedFrame ==
    ASSUME NEW r \in Streams, ClosedOf(r), UNCHANGED secrets,
           ~err'[r] => ~err[r] /\ trimmed'[r] = trimmed[r],
           closed' = closed
    PROVE  ClosedOf(r)'
    BY DEF ClosedOf, CloseIndex

LEMMA AppendOutputStored ==
    ASSUME TypeOK, LimitInv, WriterInv, StoredInv, Separable,
           NEW s \in Streams, AppendOutput(s)
    PROVE  \A r \in Streams : (\A rest \in Rests' : StoredOf(r, rest)') /\ ClosedOf(r)'
<1>0. /\ at[s] = "append" /\ at' = [at EXCEPT ![s] = "relay"]
      /\ ~Full => /\ truncated' = [truncated EXCEPT ![s] = Len(Piece(s)) > limit - Used]
                  /\ rows' = Append(rows, NewRow(s))
                  /\ NewRow(s) \in Row /\ Used < limit
      /\ Full => truncated' = [truncated EXCEPT ![s] = TRUE] /\ rows' = rows
      /\ UNCHANGED <<text, secrets, emitted, process, closed, trimmed, todo, err>>
    BY Appended DEF inputVars, processVars
<1>1. /\ at \in [Streams -> Standing] /\ truncated \in [Streams -> BOOLEAN]
      /\ Rests' = Rests
    BY <1>0 DEF TypeOK, Standing, Rests
<1>2. /\ at'[s] = "relay" /\ ~err[s]
      /\ \A r \in Streams \ {s} : at'[r] = at[r]
    BY <1>0, <1>1 DEF WriterInv
<1>3. \A r \in Streams \ {s} : truncated'[r] = truncated[r]
    BY <1>0, <1>1
<1>4. \A r \in Streams : (\A rest \in Rests : StoredOf(r, rest)) /\ ClosedOf(r)
    BY DEF StoredInv
<1>5. \A r \in Streams : ClosedOf(r)'
    BY <1>0, <1>4, ClosedFrame
<1>6. \A r \in Streams \ {s} : Output(r)' = Output(r)
    <2>1. CASE Full
        BY <1>0, <2>1 DEF Output
    <2>2. CASE ~Full
        <3>1. NewRow(s).stream = s
            BY DEF NewRow
        <3> QED
            BY <1>0, <2>2, <3>1, OutputAppend
    <2> QED
        BY <2>1, <2>2
<1>7. \A r \in Streams \ {s} : Remaining(r)' = Remaining(r)
    BY <1>0, <1>2 DEF Remaining, NextPieces
<1>8. ASSUME NEW r \in Streams \ {s} PROVE \A rest \in Rests' : StoredOf(r, rest)'
    <2>1. \A rest \in Rests : StoredOf(r, rest)
        BY <1>4
    <2>2. Output(r)' = Output(r) /\ Remaining(r)' = Remaining(r)
        BY <1>6, <1>7
    <2>3. err'[r] = err[r] /\ truncated'[r] = truncated[r] /\ trimmed'[r] = trimmed[r]
        BY <1>0, <1>3
    <2>4. emitted'[r] = emitted[r] /\ UNCHANGED <<text, secrets>> /\ Rests' \subseteq Rests
        BY <1>0, <1>1
    <2> QED
        BY <2>1, <2>2, <2>3, <2>4, StoredFrame
<1>9. CASE Full
    <2>1. truncated'[s] /\ Output(s)' = Output(s)
        BY <1>0, <1>1, <1>9 DEF Output
    <2>2. \A rest \in Rests : StoredOf(s, rest)
        BY <1>4
    <2>3. emitted'[s] = emitted[s] /\ UNCHANGED <<text, secrets>> /\ Rests' \subseteq Rests
        BY <1>0, <1>1
    <2>4. \A rest \in Rests' : StoredOf(s, rest)'
        BY <2>1, <2>2, <2>3, StoredFrame
    <2> QED
        BY <1>5, <1>8, <2>4
<1>10. CASE ~Full
    <2> DEFINE data == DataStored(s)
               dropped == SubSeq(Piece(s), Len(data) + 1, Len(Piece(s)))
               next == NextPieces(s)
               cut == Len(Piece(s)) > limit - Used
    <2>1. /\ data \in Seq(Bytes) /\ data \o dropped = Piece(s)
          /\ ~cut => data = Piece(s)
        BY <1>0, <1>10, DataStoredType DEF DataStored
    <2>2. /\ Piece(s) \in Seq(Bytes) /\ next \in Seq(Bytes)
          /\ Piece(s) \o next = todo[s]
        BY PiecesType
    <2>3. dropped \in Seq(Bytes)
        <3>1. Len(data) \in Nat /\ Len(Piece(s)) \in Nat
            BY <2>1, <2>2
        <3> QED
            BY <2>2, <3>1, SubSeqProperties
    <2>4. Output(s)' = Output(s) \o data
        <3>1. NewRow(s).stream = s /\ NewRow(s).data = data
            BY DEF NewRow
        <3> HIDE DEF data
        <3> QED
            BY <1>0, <1>10, <3>1, OutputAppend
    <2>5. ~truncated[s]
        BY <1>0, <1>10, UsedType DEF LimitInv
    <2>6. truncated'[s] = cut
        <3>1. cut \in BOOLEAN /\ truncated' = [truncated EXCEPT ![s] = cut]
            BY <1>0, <1>10
        <3> HIDE DEF cut
        <3> QED
            BY <1>1, <3>1
    <2>7. Remaining(s) = todo[s] /\ Remaining(s)' = next
        BY <1>0, <1>2 DEF Remaining, NextPieces
    <2> HIDE DEF data, dropped, next, cut
    <2>8. ASSUME NEW rest \in Rests' PROVE StoredOf(s, rest)'
        <3> DEFINE out == Output(s)
                   more == Through(secrets, trimmed[s], rest)
        <3>1. rest \in Seq(Bytes)
            BY <1>1, <2>8, RestsType
        <3>2. out \in Seq(Bytes) /\ more \in Seq(Bytes)
            BY <3>1, OutputType, HeldType, ThroughType
        <3>3. StoredOf(s, rest)
            BY <1>1, <1>4, <2>8
        <3>4. Whole(s, rest)' = Whole(s, rest)
            BY <1>0 DEF Whole, Emitted
        <3>5. Whole(s, rest) = out \o (todo[s] \o more)
            BY <1>2, <2>5, <2>7, <3>3 DEF StoredOf
        <3> HIDE DEF out, more
        <3>a. \A x, y, z \in Seq(Bytes) : Regroups(x, y, z)
            BY ConcatRegroups
        <3>p. Piece(s) \in Seq(Bytes) /\ next \in Seq(Bytes) /\ data \in Seq(Bytes)
            BY <2>1, <2>2
        <3>6. Whole(s, rest) = out \o ((Piece(s) \o next) \o more)
            BY <2>2, <3>5
        <3>7. (Piece(s) \o next) \o more = Piece(s) \o (next \o more)
            <4>1. Regroups(Piece(s), next, more)
                BY <3>2, <3>a, <3>p
            <4> QED
                BY <4>1 DEF Regroups
        <3>8. next \o more \in Seq(Bytes)
            BY <2>2, <3>2, ConcatProperties
        <3>9. Piece(s) \o (next \o more) = data \o (dropped \o (next \o more))
            <4>1. (data \o dropped) \o (next \o more) = data \o (dropped \o (next \o more))
                <5>1. Regroups(data, dropped, next \o more)
                    BY <2>3, <3>8, <3>a, <3>p
                <5> QED
                    BY <5>1 DEF Regroups
            <4> QED
                BY <2>1, <4>1
        <3> DEFINE tail == dropped \o (next \o more)
        <3>10. tail \in Seq(Bytes)
            BY <2>3, <3>8, ConcatProperties
        <3>11. Whole(s, rest) = out \o (data \o tail)
            BY <3>6, <3>7, <3>9
        <3> HIDE DEF tail
        <3>12. out \o (data \o tail) = (out \o data) \o tail
            <4>1. Regroups(out, data, tail)
                BY <3>2, <3>10, <3>a, <3>p
            <4> QED
                BY <4>1 DEF Regroups
        <3>13. out \o data \in Seq(Bytes)
            BY <2>1, <3>2, ConcatProperties
        <3>14. IsPrefix(out \o data, Whole(s, rest))
            BY <3>10, <3>11, <3>12, <3>13, PrefixConcat
        <3>15. ASSUME ~cut
               PROVE  Whole(s, rest) = (out \o data) \o (next \o more)
            <4>1. Whole(s, rest) = out \o (data \o (next \o more))
                BY <2>1, <3>6, <3>7, <3>15
            <4>2. out \o (data \o (next \o more)) = (out \o data) \o (next \o more)
                <5>1. Regroups(out, data, next \o more)
                    BY <3>2, <3>8, <3>a, <3>p
                <5> QED
                    BY <5>1 DEF Regroups
            <4> QED
                BY <4>1, <4>2
        <3>16. Through(secrets', trimmed'[s], rest) = more
            BY <1>0 DEF more
        <3>17. ~truncated'[s] =>
                  Whole(s, rest)'
                    = Output(s)' \o (Remaining(s)' \o Through(secrets', trimmed'[s], rest))
            BY <2>4, <2>6, <2>7, <3>4, <3>15, <3>16 DEF out
        <3>18. IsPrefix(Output(s)', Whole(s, rest)')
            BY <2>4, <3>4, <3>14 DEF out
        <3> QED
            BY <3>17, <3>18 DEF StoredOf
    <2> QED
        BY <1>5, <1>8, <2>8
<1> QED
    BY <1>9, <1>10

(* A write reaches the auditWriter of a stream: what it has to store, and   *)
(* what the redactors will make of the rest, are what they would have made  *)
(* of the data and the rest.                                                *)
LEMMA WriteStored ==
    ASSUME TypeOK, WriterInv, NEW s \in Streams, NEW down \in Flow,
           at[s] = "idle", Write(s, down),
           NEW before \in Seq(Bytes), NEW rest \in Seq(Bytes),
           StoredOf(s, before), Whole(s, rest)' = Whole(s, before),
           Through(secrets, pending[s], before)
             = down.out \o Through(secrets, down.held, rest),
           Output(s)' = Output(s), UNCHANGED <<secrets, err, truncated>>
    PROVE  StoredOf(s, rest)'
<1>1. IsPrefix(Output(s)', Whole(s, rest)')
    BY DEF StoredOf
<1>2. ASSUME ~err[s], ~truncated[s]
      PROVE  Whole(s, rest)'
               = Output(s)' \o (Remaining(s)' \o Through(secrets', trimmed'[s], rest))
    <2>1. /\ trimmed'[s] = down.held /\ todo'[s] = down.out
          /\ down.out = <<>> => at'[s] = "idle"
          /\ down.out # <<>> => at'[s] = "append"
        BY <1>2, WriteEffect
    <2>2. Remaining(s)' = down.out
        BY <2>1 DEF Remaining
    <2>3. pending[s] = trimmed[s] /\ Remaining(s) = <<>>
        BY <1>2 DEF WriterInv, Remaining
    <2>4. Whole(s, before)
            = Output(s) \o (Remaining(s) \o Through(secrets, pending[s], before))
        BY <1>2, <2>3 DEF StoredOf
    <2>5. Through(secrets, pending[s], before) \in Seq(Bytes)
        BY HeldType, ThroughType
    <2>6. Remaining(s) \o Through(secrets, pending[s], before)
            = Through(secrets, pending[s], before)
        BY <2>3, <2>5, ConcatEmptySeq
    <2>7. Whole(s, before)
            = Output(s) \o (down.out \o Through(secrets, down.held, rest))
        BY <2>4, <2>6
    <2> QED
        BY <2>1, <2>2, <2>7
<1> QED
    BY <1>1, <1>2 DEF StoredOf

(* The streams that a write does not concern.                               *)
LEMMA OthersStored ==
    ASSUME StoredInv, Separable, NEW r \in Streams,
           UNCHANGED <<text, secrets, rows, err, truncated>>,
           emitted'[r] = emitted[r], trimmed'[r] = trimmed[r],
           at'[r] = at[r], todo'[r] = todo[r], Rests' \subseteq Rests
    PROVE  \A rest \in Rests' : StoredOf(r, rest)'
<1>1. Output(r)' = Output(r) /\ Remaining(r)' = Remaining(r)
    BY DEF Output, Remaining, NextPieces
<1>2. \A rest \in Rests : StoredOf(r, rest)
    BY DEF StoredInv
<1> QED
    BY <1>1, <1>2, StoredFrame

LEMMA EmitStored ==
    ASSUME TypeOK, WriterInv, EndInv, StoredInv, Separable,
           NEW s \in Streams, Emit(s)
    PROVE  \A r \in Streams : (\A rest \in Rests' : StoredOf(r, rest)') /\ ClosedOf(r)'
<1>1. PICK n \in 1 .. MaxWrite :
              LET data == SubSeq(text[s], emitted[s] + 1, emitted[s] + n)
                  down == Chain(s, 1, data, FALSE)
              IN  /\ emitted[s] + n <= Len(text[s])
                  /\ emitted' = [emitted EXCEPT ![s] = @ + n]
                  /\ data \in Seq(Bytes) /\ down \in Flow /\ Write(s, down)
    BY EmitFlow
<1> DEFINE data == SubSeq(text[s], emitted[s] + 1, emitted[s] + n)
           down == Chain(s, 1, data, FALSE)
<1>2. /\ emitted[s] + n <= Len(text[s]) /\ emitted' = [emitted EXCEPT ![s] = @ + n]
      /\ data \in Seq(Bytes) /\ down \in Flow /\ Write(s, down)
    BY <1>1
<1>3. /\ emitted \in [Streams -> Nat] /\ n \in Nat /\ text[s] \in Seq(Bytes)
    BY OutputAssumption, TextAssumption DEF TypeOK
<1>4. /\ process = "running" /\ at[s] = "idle"
      /\ UNCHANGED <<text, secrets, rows, err, truncated, process, closed>>
    BY DEF Emit, inputVars
<1>5. Rests = Seq(Bytes) /\ Rests' = Seq(Bytes)
    BY <1>4 DEF Rests
<1>6. Emitted(s)' = Emitted(s) \o data /\ Emitted(s) \in Seq(Bytes)
    <2> DEFINE w == text[s]
               m == emitted[s]
    <2>1. w \in Seq(Bytes) /\ m \in Nat /\ m + n <= Len(w) /\ Len(w) \in Nat
          /\ emitted'[s] = m + n
        BY <1>2, <1>3
    <2> HIDE DEF w, m
    <2>2. 1 \in 1 .. Len(w) + 1 /\ m \in 1 - 1 .. Len(w) /\ m + n \in m .. Len(w)
        BY <1>3, <2>1
    <2>3. SubSeq(w, 1, m) \o SubSeq(w, m + 1, m + n) = SubSeq(w, 1, m + n)
        BY <2>1, <2>2, ConcatAdjacentSubSeq
    <2>4. SubSeq(w, 1, m) \in Seq(Bytes)
        BY <2>1, SubSeqProperties
    <2> QED
        BY <1>4, <2>1, <2>3, <2>4 DEF Emitted, w, m
<1> HIDE DEF data, down
<1>7. ASSUME NEW rest \in Rests' PROVE StoredOf(s, rest)'
    <2> DEFINE before == data \o rest
               start == Emitted(s)
    <2>1. rest \in Seq(Bytes) /\ before \in Seq(Bytes)
        BY <1>2, <1>5, <1>7, ConcatProperties
    <2>2. StoredOf(s, before)
        BY <1>5, <2>1 DEF StoredInv
    <2>3. Whole(s, rest)' = Whole(s, before)
        <3>1. \A x, y, z \in Seq(Bytes) : (x \o y) \o z = x \o (y \o z)
            BY ConcatAssociative
        <3>2. start \in Seq(Bytes) /\ data \in Seq(Bytes)
            BY <1>2, <1>6
        <3> HIDE DEF start
        <3>3. (start \o data) \o rest = start \o (data \o rest)
            BY <2>1, <3>1, <3>2
        <3>4. Whole(s, rest)' = RedactMany((start \o data) \o rest, secrets)
            BY <1>4, <1>6 DEF Whole, start
        <3> QED
            BY <3>3, <3>4 DEF Whole, start
    <2>4. Through(secrets, pending[s], data \o rest)
            = down.out \o Through(secrets, down.held, rest)
        BY <1>2, <2>1, ChainPasses DEF down
    <2>5. Output(s)' = Output(s)
        BY <1>4 DEF Output
    <2> HIDE DEF before
    <2>6. Through(secrets, pending[s], before)
            = down.out \o Through(secrets, down.held, rest)
        BY <2>4 DEF before
    <2>7. UNCHANGED <<secrets, err, truncated>>
        BY <1>4
    <2> QED
        BY <1>2, <1>4, <2>1, <2>2, <2>3, <2>5, <2>6, <2>7, WriteStored
<1>8. ASSUME NEW r \in Streams \ {s} PROVE \A rest \in Rests' : StoredOf(r, rest)'
    <2>1. trimmed'[r] = trimmed[r] /\ at'[r] = at[r] /\ todo'[r] = todo[r]
        BY <1>2, <1>4, WriteEffect
    <2>2. emitted'[r] = emitted[r] /\ Rests' \subseteq Rests
        BY <1>2, <1>3, <1>5
    <2> QED
        BY <1>4, <2>1, <2>2, OthersStored
<1>9. \A r \in Streams : ClosedOf(r)'
    <2>1. closed' = 0
        BY <1>4 DEF EndInv
    <2>2. \A r \in Streams, i \in DOMAIN secrets' : CloseIndex(r, i) \in Nat \ {0}
        <3>1. DOMAIN secrets' = 1 .. Len(secrets) /\ Len(secrets) \in Nat
            BY <1>4, SecretsType
        <3> QED
            BY <3>1 DEF CloseIndex
    <2> QED
        BY <2>1, <2>2 DEF ClosedOf
<1> QED
    BY <1>7, <1>8, <1>9

LEMMA ClosingsIndex ==
    \A k \in DOMAIN Closings : CloseIndex(Closings[k][1], Closings[k][2]) = k
<1>1. DOMAIN Closings = {1, 2, 3, 4}
    BY DEF Closings
<1> QED
    BY <1>1 DEF Closings, CloseIndex

LEMMA CloseStored ==
    ASSUME TypeOK, WriterInv, StoredInv, Separable,
           NEW k \in DOMAIN Closings, CloseRedactor(k)
    PROVE  \A r \in Streams : (\A rest \in Rests' : StoredOf(r, rest)') /\ ClosedOf(r)'
<1> DEFINE s == Closings[k][1]
           i == Closings[k][2]
           closes == i \in DOMAIN secrets /\ pending[s][i] # <<>>
           down == Chain(s, i, <<>>, TRUE)
<1>1. /\ s \in Streams /\ i \in {1, 2} /\ k \in 1 .. 4 /\ CloseIndex(s, i) = k
    BY ClosingsType, ClosingsIndex
<1>2. /\ process = "exited" /\ closed = k - 1 /\ closed' = k
      /\ \A r \in Streams : at[r] = "idle"
      /\ closes => Write(s, down)
      /\ ~closes => UNCHANGED <<pending, trimmed, todo, at, broken>>
      /\ UNCHANGED <<text, secrets, emitted, process, rows, err, truncated>>
    BY DEF CloseRedactor, inputVars
<1> HIDE DEF s, i
<1>3. Rests = {<<>>} /\ Rests' = {<<>>}
    BY <1>2 DEF Rests
<1>4. DOMAIN secrets = 1 .. Len(secrets) /\ (Len(secrets) = 1 \/ Len(secrets) = 2)
    BY SecretsType
<1>5. \A r \in Streams : StoredOf(r, <<>>) /\ ClosedOf(r)
    BY <1>3 DEF StoredInv
<1>6. ~err[s] => pending[s] = trimmed[s]
    BY <1>1, <1>2 DEF WriterInv
(* Those before it have been closed.                                        *)
<1>7. \A j \in DOMAIN secrets : j < i /\ ~err[s] => trimmed[s][j] = <<>>
    <2>1. \A j \in DOMAIN secrets : j < i => closed >= CloseIndex(s, j)
        BY <1>1, <1>2, <1>4 DEF CloseIndex
    <2> QED
        BY <1>1, <1>5, <2>1 DEF ClosedOf
(* In the order of the closings, nothing of another stream comes in between.*)
<1>8. \A r \in Streams \ {s}, j \in DOMAIN secrets :
         closed' >= CloseIndex(r, j) => closed >= CloseIndex(r, j)
    <2>1. \A r \in Streams \ {s}, j \in DOMAIN secrets : CloseIndex(r, j) # k
        BY <1>1, <1>4, OutputAssumption DEF CloseIndex
    <2>2. \A r \in Streams, j \in DOMAIN secrets : CloseIndex(r, j) \in Nat
        BY <1>4 DEF CloseIndex
    <2> QED
        BY <1>1, <1>2, <2>1, <2>2
<1>9. \A j \in DOMAIN secrets : closed' >= CloseIndex(s, j) => j <= i
    BY <1>1, <1>2, <1>4 DEF CloseIndex
<1>10. CASE closes
    <2>1. Write(s, down) /\ i \in DOMAIN secrets
        BY <1>2, <1>10
    <2>2. down \in Flow
        BY <1>1, <2>1, ChainClosesType
    <2>3. ASSUME ~err[s]
          PROVE  /\ \A j \in 1 .. i : down.held[j] = <<>>
                 /\ Through(secrets, pending[s], <<>>)
                      = down.out \o Through(secrets, down.held, <<>>)
        <3>1. \A j \in 1 .. i - 1 : pending[s][j] = <<>>
            BY <1>1, <1>4, <1>6, <1>7, <2>1, <2>3
        <3> QED
            BY <1>1, <2>1, <3>1, ChainCloses
    <2> HIDE DEF down
    <2>4. /\ trimmed'[s] = down.held
          /\ \A r \in Streams \ {s} :
                /\ trimmed'[r] = trimmed[r] /\ at'[r] = at[r] /\ todo'[r] = todo[r]
        BY <1>1, <1>2, <2>1, <2>2, WriteEffect
    <2>5. \A r \in Streams \ {s} : \A rest \in Rests' : StoredOf(r, rest)'
        BY <1>2, <1>3, <2>4, OthersStored
    <2>6. Whole(s, <<>>)' = Whole(s, <<>>) /\ Output(s)' = Output(s)
        BY <1>2 DEF Whole, Emitted, Output
    <2>7. StoredOf(s, <<>>)'
        <3>1. CASE err[s]
            <4>1. IsPrefix(Output(s)', Whole(s, <<>>)') /\ err'[s]
                BY <1>1, <1>2, <1>5, <2>6, <3>1 DEF StoredOf
            <4> QED
                BY <4>1 DEF StoredOf
        <3>2. CASE ~err[s]
            <4> DEFINE E == <<>>
            <4>1. E \in Seq(Bytes)
                OBVIOUS
            <4>2. /\ StoredOf(s, E) /\ Whole(s, E)' = Whole(s, E)
                  /\ Through(secrets, pending[s], E)
                       = down.out \o Through(secrets, down.held, E)
                BY <1>1, <1>5, <2>3, <2>6, <3>2
            <4> HIDE DEF E
            <4>3. StoredOf(s, E)'
                BY <1>1, <1>2, <2>1, <2>2, <2>6, <4>1, <4>2, WriteStored
            <4> QED
                BY <4>3 DEF E
        <3> QED
            BY <3>1, <3>2
    <2>8. ClosedOf(s)'
        <3>1. \A j \in DOMAIN secrets : j <= i /\ ~err[s] => trimmed'[s][j] = <<>>
            <4>1. \A j \in DOMAIN secrets : j <= i => j \in 1 .. i
                BY <1>1, <1>4
            <4>2. ~err[s] => \A j \in 1 .. i : down.held[j] = <<>>
                BY <2>3
            <4> QED
                BY <2>4, <4>1, <4>2
        <3> QED
            BY <1>2, <1>9, <3>1 DEF ClosedOf, CloseIndex
    <2>9. \A r \in Streams \ {s} : ClosedOf(r)'
        BY <1>2, <1>5, <1>8, <2>4 DEF ClosedOf, CloseIndex
    <2> QED
        BY <1>1, <1>3, <2>5, <2>7, <2>8, <2>9
<1>11. CASE ~closes
    <2>1. UNCHANGED <<trimmed, todo, at>>
        BY <1>2, <1>11
    <2>2. \A r \in Streams : \A rest \in Rests' : StoredOf(r, rest)'
        BY <1>2, <1>3, <2>1, OthersStored
    <2>3. ClosedOf(s)'
        <3>1. \A j \in DOMAIN secrets : j <= i /\ ~err[s] => trimmed[s][j] = <<>>
            <4>1. i \in DOMAIN secrets => pending[s][i] = <<>>
                BY <1>11
            <4>2. \A j \in DOMAIN secrets : j <= i => j < i \/ j = i
                BY <1>1, <1>4
            <4> QED
                BY <1>6, <1>7, <4>1, <4>2
        <3> QED
            BY <1>2, <1>9, <2>1, <3>1 DEF ClosedOf, CloseIndex
    <2>4. \A r \in Streams \ {s} : ClosedOf(r)'
        BY <1>2, <1>5, <1>8, <2>1 DEF ClosedOf, CloseIndex
    <2> QED
        BY <2>2, <2>3, <2>4
<1> QED
    BY <1>10, <1>11

(* Steps that end the writing of a stream, or go on with the next piece.    *)
LEMMA WriterStored ==
    ASSUME TypeOK, WriterInv, StoredInv, Separable, NEW s \in Streams,
           AppendFails(s) \/ Relay(s) \/ Mark(s)
    PROVE  \A r \in Streams : (\A rest \in Rests' : StoredOf(r, rest)') /\ ClosedOf(r)'
<1>1. /\ UNCHANGED <<text, secrets, rows, emitted, process, closed, trimmed, truncated>>
      /\ at[s] # "idle" /\ ~err[s]
    BY DEF AppendFails, Relay, Mark, inputVars, processVars, WriterInv
<1>2. Rests' = Rests
    BY <1>1 DEF Rests
<1>3. at \in [Streams -> Standing]
    BY DEF TypeOK, Standing
<1>4. /\ \A r \in Streams \ {s} :
            at'[r] = at[r] /\ todo'[r] = todo[r] /\ err'[r] = err[r]
      /\ ~err'[s] => Remaining(s)' = Remaining(s)
    <2>1. CASE Fail(s)
        BY <2>1, FailEffect
    <2>2. CASE Continue(s) /\ UNCHANGED err /\ at[s] \in {"relay", "mark"}
        <3>1. /\ todo'[s] = NextPieces(s)
              /\ NextPieces(s) = <<>> => at'[s] = "idle"
              /\ NextPieces(s) # <<>> => at'[s] = "append"
              /\ \A r \in Streams \ {s} : at'[r] = at[r] /\ todo'[r] = todo[r]
            BY <2>2, ContinueEffect
        <3>2. Remaining(s) = NextPieces(s)
            BY <2>2 DEF Remaining
        <3>3. Remaining(s)' = NextPieces(s)
            BY <3>1 DEF Remaining
        <3> QED
            BY <2>2, <3>1, <3>2, <3>3
    <2>3. CASE at[s] = "relay" /\ at' = [at EXCEPT ![s] = "mark"] /\ UNCHANGED <<todo, err>>
        <3>1. at'[s] = "mark" /\ \A r \in Streams \ {s} : at'[r] = at[r]
            BY <1>3, <2>3
        <3>2. Remaining(s)' = Remaining(s)
            BY <2>3, <3>1 DEF Remaining, NextPieces
        <3> QED
            BY <2>3, <3>1, <3>2
    <2>4. CASE AppendFails(s)
        BY <2>1, <2>4 DEF AppendFails
    <2>5. CASE Relay(s)
        BY <2>1, <2>2, <2>3, <2>5 DEF Relay
    <2>6. CASE Mark(s)
        BY <2>1, <2>2, <2>6 DEF Mark
    <2> QED
        BY <2>4, <2>5, <2>6
<1>5. \A r \in Streams : Output(r)' = Output(r)
    BY <1>1 DEF Output
<1>6. \A r \in Streams \ {s} : Remaining(r)' = Remaining(r)
    BY <1>4 DEF Remaining, NextPieces
<1>7. ASSUME NEW r \in Streams PROVE \A rest \in Rests' : StoredOf(r, rest)'
    <2>1. ~err'[r] => ~err[r] /\ Remaining(r)' = Remaining(r)
        BY <1>1, <1>4, <1>6
    <2>2. \A rest \in Rests : StoredOf(r, rest)
        BY DEF StoredInv
    <2> QED
        BY <1>1, <1>2, <1>5, <2>1, <2>2, StoredFrame
<1>8. ASSUME NEW r \in Streams PROVE ClosedOf(r)'
    <2>1. ClosedOf(r) /\ (~err'[r] => ~err[r])
        BY <1>1, <1>4 DEF StoredInv
    <2> QED
        BY <1>1, <2>1, ClosedFrame
<1> QED
    BY <1>7, <1>8

LEMMA InitStored ==
    ASSUME Init PROVE StoredInv
<1>0. TypeOK
    BY InitType
<1>1. /\ rows = <<>> /\ closed = 0 /\ process = "running"
      /\ trimmed = [s \in Streams |-> [i \in DOMAIN secrets |-> <<>>]]
      /\ emitted = [s \in Streams |-> 0] /\ at = [s \in Streams |-> "idle"]
    BY DEF Init
<1>2. \A s : Output(s) = <<>>
    <2>1. \A s : Of(s, rows) = <<>>
        BY <1>1, KeptEmpty DEF Of
    <2>2. Joined(<<>>) = <<>>
        <3>1. [i \in DOMAIN <<>> |-> <<>>[i].data] = <<>>
            OBVIOUS
        <3> QED
            BY <3>1, FlattenEmpty DEF Joined
    <2> QED
        BY <2>1, <2>2 DEF Output
<1>3. \A s \in Streams : Emitted(s) = <<>>
    <2>1. \A s \in Streams : SubSeq(text[s], 1, 0) = <<>>
        BY SubSeqEmpty
    <2> QED
        BY <1>1, <2>1 DEF Emitted
<1>4. ASSUME NEW s \in Streams, NEW rest \in Rests PROVE StoredOf(s, rest)
    <2>1. rest \in Seq(Bytes)
        BY RestsType
    <2>2. Emitted(s) \o rest = rest
        BY <1>3, <2>1, ConcatEmptySeq
    <2>3. trimmed[s] \in Holding /\ \A i \in DOMAIN secrets : trimmed[s][i] = <<>>
        BY <1>0, <1>1, HeldType
    <2>4. Through(secrets, trimmed[s], rest) = RedactMany(rest, secrets)
        BY <1>0, <2>1, <2>3, ThroughNothingHeld
    <2> DEFINE made == Through(secrets, trimmed[s], rest)
    <2>5. made \in Seq(Bytes)
        BY <1>0, <2>1, <2>3, ThroughType
    <2>6. Whole(s, rest) = made
        BY <2>2, <2>4 DEF Whole
    <2> HIDE DEF made
    <2>7. Remaining(s) = <<>>
        BY <1>1 DEF Remaining
    <2>8. Output(s) \o (Remaining(s) \o made) = made
        BY <1>2, <2>5, <2>7, ConcatEmptySeq
    <2>9. IsPrefix(Output(s), Whole(s, rest))
        <3> DEFINE E == <<>>
        <3>1. E \in Seq(Bytes) /\ E \o made = made
            BY <2>5, ConcatEmptySeq
        <3> HIDE DEF E
        <3>2. IsPrefix(E, made)
            <4>1. IsPrefix(E, E \o made)
                BY <2>5, <3>1, PrefixConcat
            <4> QED
                BY <3>1, <4>1
        <3> QED
            BY <1>2, <2>6, <3>2 DEF E
    <2> QED
        BY <2>6, <2>8, <2>9 DEF StoredOf, made
<1>5. ASSUME NEW s \in Streams PROVE ClosedOf(s)
    BY <1>1 DEF ClosedOf
<1> QED
    BY <1>4, <1>5 DEF StoredInv

LEMMA NextStored ==
    ASSUME TypeOK, LimitInv, WriterInv, EndInv, StoredInv, [Next]_vars
    PROVE  StoredInv'
<1>0. Separable' => Separable
    <2>1. UNCHANGED secrets
        BY DEF Next, Emit, AppendOutput, AppendFails, Relay, Mark, CloseRedactor,
               RunReturns, Return, Cancel, AgentLeaves, vars, inputVars
    <2> QED
        BY <2>1 DEF Separable
<1> DEFINE Good == \A r \in Streams :
                      (\A rest \in Rests' : StoredOf(r, rest)') /\ ClosedOf(r)'
<1> SUFFICES ASSUME Separable PROVE Good
    BY <1>0 DEF StoredInv
<1>1. ASSUME NEW s \in Streams, Emit(s) PROVE Good
    BY <1>1, EmitStored
<1>2. ASSUME NEW s \in Streams, AppendOutput(s) PROVE Good
    BY <1>2, AppendOutputStored
<1>3. ASSUME NEW s \in Streams, AppendFails(s) \/ Relay(s) \/ Mark(s) PROVE Good
    BY <1>3, WriterStored
<1>4. ASSUME NEW k \in DOMAIN Closings, CloseRedactor(k) PROVE Good
    BY <1>4, CloseStored
<1>5. CASE RunReturns \/ Return \/ Cancel \/ AgentLeaves \/ UNCHANGED vars
    <2>1. /\ UNCHANGED <<text, secrets, rows, err, truncated, emitted, trimmed, at, todo,
                        closed>>
          /\ process' = process \/ process' # "running"
        BY <1>5 DEF RunReturns, Return, Cancel, AgentLeaves, vars, inputVars,
                    processVars, writerVars
    <2>2. Rests' \subseteq Rests
        <3>1. <<>> \in Rests
            BY DEF Rests
        <3>2. CASE process' = process
            BY <3>2 DEF Rests
        <3>3. CASE process' # "running"
            <4>1. Rests' = {<<>>}
                BY <3>3 DEF Rests
            <4> QED
                BY <3>1, <4>1
        <3> QED
            BY <2>1, <3>2, <3>3
    <2>3. ASSUME NEW r \in Streams PROVE \A rest \in Rests' : StoredOf(r, rest)'
        BY <2>1, <2>2, OthersStored
    <2>4. ASSUME NEW r \in Streams PROVE ClosedOf(r)'
        <3>1. ClosedOf(r)
            BY DEF StoredInv
        <3> QED
            BY <2>1, <3>1, ClosedFrame
    <2> QED
        BY <2>3, <2>4
<1> HIDE DEF Good
<1> QED
    BY <1>1, <1>2, <1>3, <1>4, <1>5 DEF Next

LEMMA StoredMeans ==
    ASSUME TypeOK, StoredInv PROVE StoredIsRedacted
<1> SUFFICES ASSUME Separable, NEW s \in Streams
             PROVE  IsPrefix(Joined(Of(s, rows)), Expected(s))
    BY DEF StoredIsRedacted
<1>1. <<>> \in Rests
    BY DEF Rests
<1>2. IsPrefix(Output(s), Whole(s, <<>>))
    BY <1>1 DEF StoredInv, StoredOf
<1>3. Emitted(s) \o <<>> = Emitted(s)
    <2>1. text[s] \in Seq(Bytes) /\ emitted[s] \in Nat /\ emitted[s] <= Len(text[s])
        BY TextAssumption DEF TypeOK
    <2>2. SubSeq(text[s], 1, emitted[s]) \in Seq(Bytes)
        BY <2>1, SubSeqProperties
    <2> QED
        BY <2>2, ConcatEmptySeq DEF Emitted
<1> QED
    BY <1>2, <1>3 DEF Whole, Expected, Emitted, Output

(* However the output is cut into reads and pieces, whatever the secrets,   *)
(* their number and the limit, and whatever fails: the rows of a stream     *)
(* hold a beginning of its redacted text, so no secret gets into the store  *)
(* and nothing is stored twice or skipped.  The secrets must not overlap    *)
(* themselves.                                                              *)
THEOREM StoredRedacted == Spec => []StoredIsRedacted
<1> DEFINE IInv == TypeOK /\ LimitInv /\ WriterInv /\ EndInv /\ StoredInv
<1>1. Init => IInv
    BY InitType, InitLimit, InitWriter, InitStored
<1>2. IInv /\ [Next]_vars => IInv'
    BY NextType, NextLimit, NextWriter, NextEnd, NextStored
<1>3. IInv => StoredIsRedacted
    BY StoredMeans
<1> QED
    BY <1>1, <1>2, <1>3, PTL DEF Spec

-----------------------------------------------------------------------------
(* What an exit status means.                                               *)

(* A writer between two writes, or between two pieces, has told the agent   *)
(* of a cut, and its marker was sent: both unless it has failed.            *)
MarkerSent(s) == \E i \in DOMAIN sent : sent[i].stream = s /\ IsMarker(sent[i])
MarkOf(s) ==
    ~err[s] => /\ truncated[s] /\ at[s] \in {"idle", "append"} => marked[s]
               /\ marked[s] => MarkerSent(s)

MarkInv == \A s \in Streams : MarkOf(s)

LEMMA InitMark ==
    ASSUME Init PROVE MarkInv
    BY DEF Init, MarkInv, MarkOf

LEMMA MarkerStays ==
    ASSUME TypeOK, NEW frame \in SentFrame, NEW s \in Streams,
           sent' = sent \/ sent' = Append(sent, frame)
    PROVE  /\ MarkerSent(s) => MarkerSent(s)'
           /\ sent' = Append(sent, frame) /\ frame.stream = s /\ IsMarker(frame) =>
                 MarkerSent(s)'
<1>0. sent \in Seq(SentFrame)
    BY DEF TypeOK, SentFrame
<1>1. CASE sent' = sent /\ sent' # Append(sent, frame)
    BY <1>1 DEF MarkerSent, IsMarker
<1>2. CASE sent' = Append(sent, frame)
    <2>1. /\ DOMAIN sent' = 1 .. Len(sent) + 1 /\ DOMAIN sent = 1 .. Len(sent)
          /\ Len(sent) \in Nat /\ \A i \in 1 .. Len(sent) : sent'[i] = sent[i]
          /\ sent'[Len(sent) + 1] = frame
        BY <1>0, <1>2, AppendProperties
    <2>2. ASSUME MarkerSent(s) PROVE MarkerSent(s)'
        <3>1. PICK i \in 1 .. Len(sent) : sent[i].stream = s /\ IsMarker(sent[i])
            BY <2>1, <2>2 DEF MarkerSent
        <3>2. i \in DOMAIN sent' /\ sent'[i] = sent[i]
            BY <2>1
        <3> QED
            BY <3>1, <3>2 DEF MarkerSent, IsMarker
    <2>3. ASSUME frame.stream = s, IsMarker(frame) PROVE MarkerSent(s)'
        <3>1. Len(sent) + 1 \in DOMAIN sent'
            BY <2>1
        <3> QED
            BY <2>1, <2>3, <3>1 DEF MarkerSent, IsMarker
    <2> QED
        BY <1>2, <2>2, <2>3
<1> QED
    BY <1>1, <1>2

(* A step that marks nothing and cuts nothing.                              *)
LEMMA MarkFrame ==
    ASSUME NEW r \in Streams, MarkOf(r),
           ~err'[r] =>
               /\ ~err[r] /\ truncated'[r] = truncated[r] /\ marked'[r] = marked[r]
               /\ at'[r] \in {"idle", "append"} => at[r] \in {"idle", "append"},
           MarkerSent(r) => MarkerSent(r)'
    PROVE  MarkOf(r)'
    BY DEF MarkOf

LEMMA NextMark ==
    ASSUME TypeOK, WriterInv, MarkInv, [Next]_vars PROVE MarkInv'
<1>0. /\ at \in [Streams -> Standing] /\ marked \in [Streams -> BOOLEAN]
      /\ \A s \in Streams : stored[s] \in Seq(Bytes)
    BY DEF TypeOK, Standing
<1>1. ASSUME sent' = sent, NEW s \in Streams PROVE MarkerSent(s) => MarkerSent(s)'
    BY <1>1 DEF MarkerSent, IsMarker
<1>2. ASSUME NEW s \in Streams, Emit(s) PROVE MarkInv'
    <2>1. \A r \in Streams : at'[r] = at[r] \/ (r = s /\ at'[r] = "append")
        BY <1>2, WriteAt DEF Emit
    <2>2. at[s] = "idle" /\ UNCHANGED <<sent, err, truncated, marked>>
        BY <1>2 DEF Emit
    <2>3. \A r \in Streams : MarkOf(r)'
        BY <1>1, <2>1, <2>2, MarkFrame DEF MarkInv
    <2> QED
        BY <2>3 DEF MarkInv
<1>3. ASSUME NEW s \in Streams, AppendOutput(s) PROVE MarkInv'
    <2>1. /\ at' = [at EXCEPT ![s] = "relay"] /\ UNCHANGED <<sent, err, marked>>
          /\ \A r \in Streams \ {s} : truncated'[r] = truncated[r]
        BY <1>3 DEF AppendOutput, TypeOK
    <2>2. at'[s] = "relay" /\ \A r \in Streams \ {s} : at'[r] = at[r]
        BY <1>0, <2>1
    <2>3. \A r \in Streams \ {s} : MarkOf(r)'
        BY <1>1, <2>1, <2>2, MarkFrame DEF MarkInv
    <2>4. MarkOf(s)'
        BY <1>1, <2>1, <2>2 DEF MarkInv, MarkOf
    <2> QED
        BY <2>3, <2>4 DEF MarkInv
<1>4. ASSUME NEW s \in Streams, Fail(s), UNCHANGED <<sent, truncated>>,
             \A r \in Streams \ {s} : marked'[r] = marked[r]
      PROVE  MarkInv'
    <2>1. /\ err'[s] /\ \A r \in Streams \ {s} : err'[r] = err[r] /\ at'[r] = at[r]
        BY <1>4, FailEffect
    <2>2. \A r \in Streams \ {s} : MarkOf(r)'
        BY <1>1, <1>4, <2>1, MarkFrame DEF MarkInv
    <2>3. MarkOf(s)'
        BY <2>1 DEF MarkOf
    <2> QED
        BY <2>2, <2>3 DEF MarkInv
<1>5. ASSUME NEW s \in Streams, AppendFails(s) PROVE MarkInv'
    BY <1>4, <1>5 DEF AppendFails
<1>6. ASSUME NEW s \in Streams, Relay(s) PROVE MarkInv'
    <2>1. at[s] = "relay" /\ UNCHANGED <<truncated, marked>>
        BY <1>6 DEF Relay
    <2>2. CASE stored[s] # <<>> /\ left
        <3>1. Fail(s) /\ UNCHANGED sent
            BY <1>6, <2>2 DEF Relay
        <3> QED
            BY <1>4, <2>1, <3>1
    <2>3. CASE ~(stored[s] # <<>> /\ left)
        <3> DEFINE frame == [stream |-> s, data |-> Frame(stored[s])]
        <3>1. /\ sent' = sent \/ sent' = Append(sent, frame)
              /\ UNCHANGED err
              /\ (at' = [at EXCEPT ![s] = "mark"]) \/ (Continue(s) /\ ~ToMark(s))
            BY <1>6, <2>3 DEF Relay
        <3>2. frame \in SentFrame
            BY <1>0, FrameType DEF SentFrame
        <3> HIDE DEF frame
        <3>3. \A r \in Streams : MarkerSent(r) => MarkerSent(r)'
            BY <3>1, <3>2, MarkerStays
        <3>4. /\ \A r \in Streams \ {s} : at'[r] = at[r]
              /\ at'[s] = "mark" \/ ~ToMark(s)
            <4>1. CASE at' = [at EXCEPT ![s] = "mark"]
                BY <1>0, <4>1
            <4>2. CASE Continue(s) /\ ~ToMark(s)
                BY <4>2, ContinueEffect
            <4> QED
                BY <3>1, <4>1, <4>2
        <3>5. \A r \in Streams \ {s} : MarkOf(r)'
            BY <2>1, <3>1, <3>3, <3>4, MarkFrame DEF MarkInv
        <3>6. MarkOf(s)'
            BY <2>1, <3>1, <3>3, <3>4 DEF MarkInv, MarkOf, ToMark
        <3> QED
            BY <3>5, <3>6 DEF MarkInv
    <2> QED
        BY <2>2, <2>3
<1>7. ASSUME NEW s \in Streams, Mark(s) PROVE MarkInv'
    <2>1. /\ UNCHANGED truncated /\ marked' = [marked EXCEPT ![s] = TRUE]
        BY <1>7 DEF Mark
    <2>2. marked'[s] /\ \A r \in Streams \ {s} : marked'[r] = marked[r]
        BY <1>0, <2>1
    <2>3. CASE left
        <3>1. Fail(s) /\ UNCHANGED sent
            BY <1>7, <2>3 DEF Mark
        <3> QED
            BY <1>4, <2>1, <2>2, <3>1
    <2>4. CASE ~left
        <3> DEFINE frame == [stream |-> s, data |-> <<Marker>>]
        <3>1. sent' = Append(sent, frame) /\ UNCHANGED err /\ Continue(s)
            BY <1>7, <2>4 DEF Mark
        <3>2. frame.stream = s /\ IsMarker(frame) /\ frame \in SentFrame
            BY DEF IsMarker, SentFrame
        <3> HIDE DEF frame
        <3>3. MarkerSent(s)' /\ \A r \in Streams : MarkerSent(r) => MarkerSent(r)'
            BY <3>1, <3>2, MarkerStays
        <3>4. \A r \in Streams \ {s} : at'[r] = at[r]
            BY <3>1, ContinueEffect
        <3>5. \A r \in Streams \ {s} : MarkOf(r)'
            BY <2>1, <2>2, <3>1, <3>3, <3>4, MarkFrame DEF MarkInv
        <3>6. MarkOf(s)'
            BY <2>2, <3>3 DEF MarkOf
        <3> QED
            BY <3>5, <3>6 DEF MarkInv
    <2> QED
        BY <2>3, <2>4
<1>8. ASSUME NEW k \in DOMAIN Closings, CloseRedactor(k) PROVE MarkInv'
    <2> DEFINE s == Closings[k][1]
               i == Closings[k][2]
    <2>1. s \in Streams /\ (\A r \in Streams : at[r] = "idle")
          /\ UNCHANGED <<sent, err, truncated, marked>>
        BY <1>8, ClosingsType DEF CloseRedactor
    <2>2. \A r \in Streams : MarkOf(r)'
        BY <1>1, <2>1, MarkFrame DEF MarkInv
    <2> QED
        BY <2>2 DEF MarkInv
<1>9. CASE RunReturns \/ Return \/ Cancel \/ AgentLeaves \/ UNCHANGED vars
    <2>1. UNCHANGED <<sent, err, truncated, marked, at>>
        BY <1>9 DEF RunReturns, Return, Cancel, AgentLeaves, vars, writerVars
    <2>2. \A r \in Streams : MarkOf(r)'
        BY <1>1, <2>1, MarkFrame DEF MarkInv
    <2> QED
        BY <2>2 DEF MarkInv
<1> QED
    BY <1>2, <1>3, <1>5, <1>6, <1>7, <1>8, <1>9 DEF Next

LEMMA CompleteMeans ==
    ASSUME TypeOK, WriterInv, EndInv, RelayInv, StoredInv, MarkInv
    PROVE  ResultIsComplete
<1> SUFFICES ASSUME result = "exit", Separable, NEW s \in Streams
             PROVE  /\ Len(DataOf(s)) = Len(Of(s, rows))
                    /\ Joined(Of(s, rows)) = Expected(s) \/ MarkerSent(s)
    BY DEF ResultIsComplete, MarkerSent
<1>1. process = "returned" /\ closed = 4 /\ at[s] = "idle" /\ ~err[s]
    BY DEF EndInv
<1>2. Len(DataOf(s)) = Len(Of(s, rows))
    <2>1. Datas(s) = Frames(s)
        BY <1>1 DEF RelayInv, RelayOf
    <2>2. Of(s, rows) \in Seq(Row) /\ DataOf(s) \in Seq(SentFrame)
        <3>1. sent \in Seq(SentFrame)
            BY DEF TypeOK, SentFrame
        <3> QED
            BY <3>1, UsedType, KeptType DEF Of, DataOf
    <2>3. DOMAIN Datas(s) = DOMAIN DataOf(s) /\ DOMAIN Frames(s) = DOMAIN Of(s, rows)
        BY DEF Datas, Frames
    <2>4. DOMAIN DataOf(s) = DOMAIN Of(s, rows)
        BY <2>1, <2>3
    <2> QED
        BY <2>2, <2>4
<1>3. CASE truncated[s]
    BY <1>1, <1>2, <1>3 DEF MarkInv, MarkOf
<1>4. CASE ~truncated[s]
    <2>1. /\ Whole(s, <<>>)
                = Output(s) \o (Remaining(s) \o Through(secrets, trimmed[s], <<>>))
          /\ ClosedOf(s)
        <3>1. <<>> \in Rests
            BY DEF Rests
        <3>2. StoredOf(s, <<>>) /\ ClosedOf(s)
            BY <3>1 DEF StoredInv
        <3> QED
            BY <1>1, <1>4, <3>2 DEF StoredOf
    <2>2. \A i \in DOMAIN secrets : trimmed[s][i] = <<>>
        <3>1. ASSUME NEW i \in DOMAIN secrets PROVE closed >= CloseIndex(s, i)
            BY <1>1, SecretsType DEF CloseIndex
        <3> QED
            BY <1>1, <2>1, <3>1 DEF ClosedOf
    <2>3. Through(secrets, trimmed[s], <<>>) = <<>>
        <3>1. <<>> \in Seq(Bytes) /\ trimmed[s] \in Holding
            BY HeldType
        <3>2. Through(secrets, trimmed[s], <<>>) = RedactMany(<<>>, secrets)
            BY <2>2, <3>1, ThroughNothingHeld
        <3>3. RedactMany(<<>>, secrets) = <<>>
            <4>1. \A i \in DOMAIN secrets : Redact(<<>>, secrets[i]) = <<>>
                BY SecretsType, RedactEmpty
            <4>2. CASE Len(secrets) = 1
                <5>1. RedactMany(<<>>, secrets) = Redact(<<>>, secrets[1])
                    BY <4>2, ManyUnfolds
                <5> QED
                    BY <4>1, <5>1, SecretsType
            <4>3. CASE Len(secrets) = 2
                <5>1. RedactMany(<<>>, secrets)
                        = Redact(Redact(<<>>, secrets[1]), secrets[2])
                    BY <4>3, ManyUnfolds
                <5>2. Redact(<<>>, secrets[1]) = <<>> /\ Redact(<<>>, secrets[2]) = <<>>
                    BY <4>1, <4>3, SecretsType
                <5> QED
                    BY <5>1, <5>2
            <4> QED
                BY <4>2, <4>3, SecretsType
        <3> QED
            BY <3>2, <3>3
    <2>4. Remaining(s) = <<>>
        BY <1>1 DEF Remaining
    <2>5. Whole(s, <<>>) = Output(s)
        <3>1. Output(s) \in Seq(Bytes)
            BY OutputType
        <3> QED
            BY <2>1, <2>3, <2>4, <3>1, ConcatEmptySeq
    <2>6. Emitted(s) \o <<>> = Emitted(s)
        <3>1. text[s] \in Seq(Bytes) /\ emitted[s] \in Nat /\ emitted[s] <= Len(text[s])
            BY TextAssumption DEF TypeOK
        <3>2. SubSeq(text[s], 1, emitted[s]) \in Seq(Bytes)
            BY <3>1, SubSeqProperties
        <3> QED
            BY <3>2, ConcatEmptySeq DEF Emitted
    <2>7. Output(s) = Expected(s)
        BY <2>5, <2>6 DEF Whole, Expected, Emitted
    <2> QED
        BY <1>2, <2>7 DEF Output
<1> QED
    BY <1>3, <1>4

(* An exit status is never reported for output that went missing: each      *)
(* stream is stored whole and every row of it was sent, or the agent was    *)
(* told that it was cut, whichever step of which stream has failed or come  *)
(* late.  The secrets must not overlap themselves.                          *)
THEOREM ResultComplete == Spec => []ResultIsComplete
<1> DEFINE IInv == /\ TypeOK /\ LimitInv /\ WriterInv /\ EndInv
                   /\ RelayInv /\ StoredInv /\ MarkInv
<1>1. Init => IInv
    BY InitType, InitLimit, InitWriter, InitRelay, InitStored, InitMark
<1>2. IInv /\ [Next]_vars => IInv'
    BY NextType, NextLimit, NextWriter, NextEnd, NextRelay, NextStored, NextMark
<1>3. IInv => ResultIsComplete
    BY CompleteMeans
<1> QED
    BY <1>1, <1>2, <1>3, PTL DEF Spec
=============================================================================
