---------------------------- MODULE RedactionProofs ----------------------------
(* Proofs about the redaction of a stream: what is redacted part by part,   *)
(* with the tails held back that FlushLen says, is the redacted whole.      *)
EXTENDS Redaction, Recursion, SequenceTheorems

(* The mark of a secret is a symbol like the others.                        *)
Alphabet(B) == Redacted \in B

(* What Redact makes of the text from each position on, when rest follows.  *)
Places(text) == 1 .. Len(text) + 1

IsRedaction(from, text, secret, rest) ==
    \A i \in Places(text) :
        from[i] = IF i > Len(text) THEN rest
                  ELSE IF OccursAt(text, secret, i)
                       THEN <<Redacted>> \o from[i + Len(secret)]
                       ELSE <<text[i]>> \o from[i + 1]

(* The tables of this recursion.                                            *)
PlaceRank(text) == [i \in Places(text) |-> Len(text) + 1 - i]
NextPlace(text, secret) ==
    [i \in Places(text) |-> IF OccursAt(text, secret, i)
                            THEN i + Len(secret) ELSE i + 1]
EndsWith(text, rest) == [i \in Places(text) |-> rest]
AddSymbol(text, secret, B) ==
    [i \in Places(text) |->
        [tail \in Seq(B) |->
            IF i > Len(text) THEN tail
            ELSE IF OccursAt(text, secret, i) THEN <<Redacted>> \o tail
            ELSE <<text[i]>> \o tail]]

LEMMA OccurrenceFits ==
    ASSUME NEW text, NEW secret, NEW i, OccursAt(text, secret, i)
    PROVE  i + Len(secret) - 1 <= Len(text)
    BY DEF OccursAt

LEMMA RedactionTables ==
    ASSUME NEW B, NEW text \in Seq(B), NEW secret \in Seq(B), secret # <<>>,
           Alphabet(B), NEW rest \in Seq(B)
    PROVE  Tables(Places(text), Seq(B), Len(text), PlaceRank(text),
                  NextPlace(text, secret), EndsWith(text, rest),
                  AddSymbol(text, secret, B))
<1>1. Len(text) \in Nat /\ Len(secret) \in Nat \ {0}
    OBVIOUS
<1>2. PlaceRank(text) \in [Places(text) -> 0 .. Len(text)]
    BY <1>1 DEF PlaceRank, Places
<1>3. EndsWith(text, rest) \in [Places(text) -> Seq(B)]
    BY DEF EndsWith
<1>4. ASSUME NEW i \in Places(text), PlaceRank(text)[i] # 0
      PROVE  /\ NextPlace(text, secret)[i] \in Places(text)
             /\ PlaceRank(text)[NextPlace(text, secret)[i]] < PlaceRank(text)[i]
    <2>1. i \in 1 .. Len(text)
        BY <1>1, <1>4 DEF PlaceRank, Places
    <2>2. NextPlace(text, secret)[i] \in i + 1 .. Len(text) + 1
        BY <1>1, <2>1, OccurrenceFits DEF NextPlace, Places
    <2> QED
        BY <1>1, <2>1, <2>2 DEF PlaceRank, Places
<1>5. AddSymbol(text, secret, B) \in [Places(text) -> [Seq(B) -> Seq(B)]]
    <2>1. ASSUME NEW i \in Places(text), NEW tail \in Seq(B)
          PROVE  (IF i > Len(text) THEN tail
                  ELSE IF OccursAt(text, secret, i) THEN <<Redacted>> \o tail
                  ELSE <<text[i]>> \o tail) \in Seq(B)
        <3>1. CASE i > Len(text)
            BY <3>1
        <3>2. CASE i \in 1 .. Len(text)
            <4>1. text[i] \in B
                BY <1>1, <3>2
            <4>2. <<text[i]>> \in Seq(B) /\ <<Redacted>> \in Seq(B)
                BY <4>1 DEF Alphabet
            <4>3. /\ <<text[i]>> \o tail \in Seq(B)
                  /\ <<Redacted>> \o tail \in Seq(B)
                BY <4>2
            <4> QED
                BY <4>3
        <3> QED
            BY <1>1, <3>1, <3>2 DEF Places
    <2> QED
        BY <2>1 DEF AddSymbol
<1> QED
    BY <1>1, <1>2, <1>3, <1>4, <1>5 DEF Tables

LEMMA RedactionComputed ==
    ASSUME NEW B, NEW text \in Seq(B), NEW secret \in Seq(B), secret # <<>>,
           NEW rest, NEW from, IsRedaction(from, text, secret, rest)
    PROVE  Computes(from, Places(text), Seq(B), PlaceRank(text),
                    NextPlace(text, secret), EndsWith(text, rest),
                    AddSymbol(text, secret, B))
<1>1. Len(text) \in Nat
    OBVIOUS
<1>2. ASSUME NEW i \in Places(text), PlaceRank(text)[i] = 0
      PROVE  from[i] = EndsWith(text, rest)[i]
    <2>1. i = Len(text) + 1 /\ i > Len(text)
        BY <1>1, <1>2 DEF PlaceRank, Places
    <2>2. from[i] = rest
        BY <1>2, <2>1 DEF IsRedaction
    <2> QED
        BY <2>2 DEF EndsWith
<1>3. ASSUME NEW i \in Places(text), PlaceRank(text)[i] # 0,
             from[NextPlace(text, secret)[i]] \in Seq(B)
      PROVE  from[i] = AddSymbol(text, secret, B)[i][from[NextPlace(text, secret)[i]]]
    <2>1. i \in 1 .. Len(text)
        BY <1>1, <1>3 DEF PlaceRank, Places
    <2> DEFINE n == NextPlace(text, secret)[i]
    <2>2. n = IF OccursAt(text, secret, i) THEN i + Len(secret) ELSE i + 1
        BY DEF NextPlace
    <2>3. from[i] = IF OccursAt(text, secret, i) THEN <<Redacted>> \o from[n]
                    ELSE <<text[i]>> \o from[n]
        BY <1>1, <1>3, <2>1, <2>2 DEF IsRedaction
    <2>4. from[n] \in Seq(B)
        BY <1>3
    <2> HIDE DEF n
    <2>5. AddSymbol(text, secret, B)[i][from[n]]
             = IF OccursAt(text, secret, i) THEN <<Redacted>> \o from[n]
               ELSE <<text[i]>> \o from[n]
        BY <1>1, <1>3, <2>1, <2>4 DEF AddSymbol
    <2> QED
        BY <2>3, <2>5 DEF n
<1> QED
    BY <1>2, <1>3 DEF Computes

LEMMA RedactionExists ==
    ASSUME NEW B, NEW text \in Seq(B), NEW secret \in Seq(B), secret # <<>>,
           Alphabet(B), NEW rest \in Seq(B)
    PROVE  \E from \in [Places(text) -> Seq(B)] : IsRedaction(from, text, secret, rest)
<1>1. PICK f \in [Places(text) -> Seq(B)] :
         Computes(f, Places(text), Seq(B), PlaceRank(text),
                  NextPlace(text, secret), EndsWith(text, rest),
                  AddSymbol(text, secret, B))
    BY RedactionTables, FunctionExists
<1>2. Len(text) \in Nat /\ Len(secret) \in Nat \ {0}
    OBVIOUS
<1>3. ASSUME NEW i \in Places(text)
      PROVE  f[i] = IF i > Len(text) THEN rest
                    ELSE IF OccursAt(text, secret, i)
                         THEN <<Redacted>> \o f[i + Len(secret)]
                         ELSE <<text[i]>> \o f[i + 1]
    <2>1. CASE i = Len(text) + 1
        BY <1>1, <1>2, <2>1 DEF Computes, PlaceRank, EndsWith, Places
    <2>2. CASE i \in 1 .. Len(text)
        <3> DEFINE n == NextPlace(text, secret)[i]
        <3>1. n \in Places(text) /\ PlaceRank(text)[i] # 0
            BY <1>2, <2>2, OccurrenceFits DEF NextPlace, Places, PlaceRank
        <3>2. f[n] \in Seq(B)
            BY <1>1, <3>1
        <3>3. f[i] = AddSymbol(text, secret, B)[i][f[n]]
            BY <1>1, <3>1, <3>2 DEF Computes
        <3>4. n = IF OccursAt(text, secret, i) THEN i + Len(secret) ELSE i + 1
            BY DEF NextPlace
        <3> HIDE DEF n
        <3>5. f[i] = IF OccursAt(text, secret, i) THEN <<Redacted>> \o f[n]
                     ELSE <<text[i]>> \o f[n]
            BY <1>2, <2>2, <3>2, <3>3 DEF AddSymbol
        <3> QED
            BY <1>2, <2>2, <3>4, <3>5
    <2> QED
        BY <1>2, <2>1, <2>2 DEF Places
<1> QED
    BY <1>3 DEF IsRedaction

LEMMA RedactUnfolds ==
    ASSUME NEW B, NEW text \in Seq(B), NEW secret \in Seq(B), secret # <<>>,
           Alphabet(B)
    PROVE  \E from \in [Places(text) -> Seq(B)] :
              IsRedaction(from, text, secret, <<>>) /\ Redact(text, secret) = from[1]
<1> DEFINE from == CHOOSE from : from = [i \in 1 .. Len(text) + 1 |->
                      IF i > Len(text) THEN <<>>
                      ELSE IF OccursAt(text, secret, i)
                           THEN <<Redacted>> \o from[i + Len(secret)]
                           ELSE <<text[i]>> \o from[i + 1]]
<1>0. <<>> \in Seq(B)
    OBVIOUS
<1>1. PICK f \in [Places(text) -> Seq(B)] : IsRedaction(f, text, secret, <<>>)
    BY <1>0, RedactionExists
<1>2. f = [i \in 1 .. Len(text) + 1 |->
                      IF i > Len(text) THEN <<>>
                      ELSE IF OccursAt(text, secret, i)
                           THEN <<Redacted>> \o f[i + Len(secret)]
                           ELSE <<text[i]>> \o f[i + 1]]
    BY <1>1 DEF IsRedaction, Places
<1>3. from = [i \in 1 .. Len(text) + 1 |->
                      IF i > Len(text) THEN <<>>
                      ELSE IF OccursAt(text, secret, i)
                           THEN <<Redacted>> \o from[i + Len(secret)]
                           ELSE <<text[i]>> \o from[i + 1]]
    BY <1>2
<1>4. Redact(text, secret) = from[1]
    BY DEF Redact
<1> HIDE DEF from
<1>5. IsRedaction(from, text, secret, <<>>)
    BY <1>3 DEF IsRedaction, Places
<1>6. DOMAIN from = Places(text) /\ from = [i \in DOMAIN from |-> from[i]]
    BY <1>3 DEF Places
<1>7. \A i \in Places(text) : from[i] \in Seq(B)
    <2>1. Computes(from, Places(text), Seq(B), PlaceRank(text),
                   NextPlace(text, secret), EndsWith(text, <<>>),
                   AddSymbol(text, secret, B))
        BY <1>5, RedactionComputed
    <2> QED
        BY <1>0, <2>1, RedactionTables, FunctionTyped
<1>8. from \in [Places(text) -> Seq(B)]
    BY <1>6, <1>7
<1> QED
    BY <1>4, <1>5, <1>8

LEMMA RedactionSteps ==
    ASSUME NEW text, Len(text) \in Nat, NEW secret, NEW rest, NEW from,
           IsRedaction(from, text, secret, rest)
    PROVE  /\ from[Len(text) + 1] = rest
           /\ \A i \in 1 .. Len(text) :
                 /\ OccursAt(text, secret, i) =>
                       from[i] = <<Redacted>> \o from[i + Len(secret)]
                 /\ ~OccursAt(text, secret, i) =>
                       from[i] = <<text[i]>> \o from[i + 1]
<1>1. Len(text) + 1 \in Places(text) /\ Len(text) + 1 > Len(text)
    BY DEF Places
<1>2. from[Len(text) + 1] = rest
    BY <1>1 DEF IsRedaction
<1>3. ASSUME NEW i \in 1 .. Len(text)
      PROVE  /\ OccursAt(text, secret, i) =>
                   from[i] = <<Redacted>> \o from[i + Len(secret)]
             /\ ~OccursAt(text, secret, i) =>
                   from[i] = <<text[i]>> \o from[i + 1]
    <2>1. i \in Places(text) /\ ~(i > Len(text))
        BY DEF Places
    <2>2. from[i] = IF OccursAt(text, secret, i)
                    THEN <<Redacted>> \o from[i + Len(secret)]
                    ELSE <<text[i]>> \o from[i + 1]
        BY <2>1 DEF IsRedaction
    <2> QED
        BY <2>2
<1> QED
    BY <1>2, <1>3

LEMMA RedactionUnique ==
    ASSUME NEW B, NEW text \in Seq(B), NEW secret \in Seq(B), secret # <<>>,
           Alphabet(B), NEW rest \in Seq(B), NEW f, NEW g,
           IsRedaction(f, text, secret, rest), IsRedaction(g, text, secret, rest)
    PROVE  \A i \in Places(text) : f[i] = g[i]
<1>1. Computes(f, Places(text), Seq(B), PlaceRank(text),
               NextPlace(text, secret), EndsWith(text, rest),
               AddSymbol(text, secret, B))
    BY RedactionComputed
<1>2. Computes(g, Places(text), Seq(B), PlaceRank(text),
               NextPlace(text, secret), EndsWith(text, rest),
               AddSymbol(text, secret, B))
    BY RedactionComputed
<1>3. Tables(Places(text), Seq(B), Len(text), PlaceRank(text),
             NextPlace(text, secret), EndsWith(text, rest),
             AddSymbol(text, secret, B))
    BY RedactionTables
<1> QED
    BY <1>1, <1>2, <1>3, FunctionUnique

LEMMA RedactType ==
    ASSUME NEW B, NEW text \in Seq(B), NEW secret \in Seq(B), Alphabet(B)
    PROVE  Redact(text, secret) \in Seq(B)
<1>1. CASE secret = <<>>
    BY <1>1 DEF Redact
<1>2. CASE secret # <<>>
    <2>1. 1 \in Places(text)
        BY DEF Places
    <2>2. PICK from \in [Places(text) -> Seq(B)] : Redact(text, secret) = from[1]
        BY <1>2, RedactUnfolds
    <2> QED
        BY <2>1, <2>2
<1> QED
    BY <1>1, <1>2

LEMMA PrependAssociative ==
    ASSUME NEW B, NEW x \in B, NEW s \in Seq(B), NEW t \in Seq(B)
    PROVE  (<<x>> \o s) \o t = <<x>> \o (s \o t)
<1> DEFINE head == <<x>>
<1>1. head \in Seq(B)
    OBVIOUS
<1> HIDE DEF head
<1>2. (head \o s) \o t = head \o (s \o t)
    BY <1>1, ConcatAssociative
<1> QED
    BY <1>2 DEF head

(* What is made of a text that something follows is what is made of the     *)
(* text, and then what follows.                                             *)
LEMMA RedactOnto ==
    ASSUME NEW B, NEW text \in Seq(B), NEW secret \in Seq(B), secret # <<>>,
           Alphabet(B), NEW rest \in Seq(B), NEW f,
           IsRedaction(f, text, secret, rest)
    PROVE  f[1] = Redact(text, secret) \o rest
<1>1. PICK from \in [Places(text) -> Seq(B)] :
         IsRedaction(from, text, secret, <<>>) /\ Redact(text, secret) = from[1]
    BY RedactUnfolds
<1> DEFINE g == [i \in Places(text) |-> from[i] \o rest]
<1>2. Len(text) \in Nat /\ Len(secret) \in Nat \ {0}
    OBVIOUS
<1>s. /\ from[Len(text) + 1] = <<>>
      /\ \A i \in 1 .. Len(text) :
            /\ OccursAt(text, secret, i) =>
                  from[i] = <<Redacted>> \o from[i + Len(secret)]
            /\ ~OccursAt(text, secret, i) =>
                  from[i] = <<text[i]>> \o from[i + 1]
    BY <1>1, <1>2, RedactionSteps
<1>a. \A i \in Places(text) : from[i] \in Seq(B) /\ g[i] = from[i] \o rest
    BY <1>1
<1>p. \A x \in B, s \in Seq(B) : (<<x>> \o s) \o rest = <<x>> \o (s \o rest)
    BY PrependAssociative DEF Alphabet
<1>n. g[Len(text) + 1] = rest
    <2>1. Len(text) + 1 \in Places(text)
        BY <1>2 DEF Places
    <2>2. <<>> \o rest = rest
        BY ConcatEmptySeq
    <2> QED
        BY <1>s, <2>1, <2>2
<1>4. 1 \in Places(text)
    BY <1>2 DEF Places
<1>5. g[1] = Redact(text, secret) \o rest
    BY <1>1, <1>4
<1> HIDE DEF g
<1>3. ASSUME NEW i \in Places(text)
      PROVE  g[i] = IF i > Len(text) THEN rest
                    ELSE IF OccursAt(text, secret, i)
                         THEN <<Redacted>> \o g[i + Len(secret)]
                         ELSE <<text[i]>> \o g[i + 1]
    <2>1. CASE i = Len(text) + 1
        BY <1>2, <1>n, <2>1
    <2>2. CASE i \in 1 .. Len(text) /\ OccursAt(text, secret, i)
        <3> DEFINE j == i + Len(secret)
        <3>1. j \in Places(text)
            BY <1>2, <2>2, OccurrenceFits DEF Places
        <3>2. from[i] = <<Redacted>> \o from[j]
            BY <1>s, <2>2
        <3> HIDE DEF j
        <3>3. from[j] \in Seq(B) /\ g[j] = from[j] \o rest
            BY <1>a, <3>1
        <3>4. (<<Redacted>> \o from[j]) \o rest = <<Redacted>> \o g[j]
            BY <1>p, <3>3 DEF Alphabet
        <3>5. g[i] = <<Redacted>> \o g[j]
            BY <1>a, <3>2, <3>4
        <3> QED
            BY <1>2, <2>2, <3>5 DEF j
    <2>3. CASE i \in 1 .. Len(text) /\ ~OccursAt(text, secret, i)
        <3> DEFINE j == i + 1
        <3>1. j \in Places(text)
            BY <1>2, <2>3 DEF Places
        <3>2. from[i] = <<text[i]>> \o from[j]
            BY <1>s, <2>3
        <3>t. text[i] \in B
            BY <1>2, <2>3
        <3> HIDE DEF j
        <3>3. from[j] \in Seq(B) /\ g[j] = from[j] \o rest
            BY <1>a, <3>1
        <3>4. (<<text[i]>> \o from[j]) \o rest = <<text[i]>> \o g[j]
            BY <1>p, <3>t, <3>3
        <3>5. g[i] = <<text[i]>> \o g[j]
            BY <1>a, <3>2, <3>4
        <3> QED
            BY <1>2, <2>3, <3>5 DEF j
    <2>4. i = Len(text) + 1 \/ i \in 1 .. Len(text)
        BY <1>2 DEF Places
    <2> QED
        BY <2>1, <2>2, <2>3, <2>4
<1>6. IsRedaction(g, text, secret, rest)
    BY <1>3 DEF IsRedaction
<1>7. PICK h : IsRedaction(h, text, secret, rest) /\ h[1] = g[1]
    BY <1>6
<1>8. Computes(f, Places(text), Seq(B), PlaceRank(text),
               NextPlace(text, secret), EndsWith(text, rest),
               AddSymbol(text, secret, B))
    BY RedactionComputed
<1>9. Computes(h, Places(text), Seq(B), PlaceRank(text),
               NextPlace(text, secret), EndsWith(text, rest),
               AddSymbol(text, secret, B))
    BY <1>7, RedactionComputed
<1>10. Tables(Places(text), Seq(B), Len(text), PlaceRank(text),
             NextPlace(text, secret), EndsWith(text, rest),
             AddSymbol(text, secret, B))
    BY RedactionTables
<1>11. f[1] = h[1]
    BY <1>4, <1>8, <1>9, <1>10, FunctionUnique
<1> QED
    BY <1>5, <1>7, <1>11

(* An occurrence, symbol by symbol.                                         *)
LEMMA OccursIff ==
    ASSUME NEW B, NEW text \in Seq(B), NEW secret \in Seq(B),
           NEW i \in Nat \ {0}
    PROVE  OccursAt(text, secret, i) <=>
              /\ i + Len(secret) - 1 <= Len(text)
              /\ \A k \in 1 .. Len(secret) : text[i + k - 1] = secret[k]
<1>1. Len(text) \in Nat /\ Len(secret) \in Nat
    OBVIOUS
<1> DEFINE m == i + Len(secret) - 1
<1>2. CASE m <= Len(text)
    <2>1. \A j \in i .. m : text[j] \in B
        BY <1>1, <1>2
    <2>2. m \in Int
        BY <1>1
    <2> HIDE DEF m
    <2>3. /\ SubSeq(text, i, m) \in Seq(B)
          /\ Len(SubSeq(text, i, m)) = IF i <= m THEN m - i + 1 ELSE 0
          /\ \A k \in 1 .. m - i + 1 : SubSeq(text, i, m)[k] = text[i + k - 1]
        BY <2>1, <2>2, SubSeqProperties
    <2>4. m - i + 1 = Len(secret)
        BY <1>1 DEF m
    <2>5. Len(SubSeq(text, i, m)) = Len(secret)
        BY <1>1, <2>2, <2>3, <2>4
    <2>6. SubSeq(text, i, m) = secret
             <=> \A k \in 1 .. Len(secret) : text[i + k - 1] = secret[k]
        <3>1. ASSUME \A k \in 1 .. Len(secret) : text[i + k - 1] = secret[k]
              PROVE  SubSeq(text, i, m) = secret
            BY <2>3, <2>4, <2>5, <3>1, SeqEqual
        <3> QED
            BY <2>3, <2>4, <3>1
    <2> QED
        BY <1>2, <2>6 DEF OccursAt, m
<1>3. CASE ~(m <= Len(text))
    BY <1>3 DEF OccursAt
<1> QED
    BY <1>2, <1>3

(* Three texts joined in either order are one text.                         *)
Regroups(x, y, z) == (x \o y) \o z = x \o (y \o z)

LEMMA ConcatRegroups ==
    ASSUME NEW B, NEW x \in Seq(B), NEW y \in Seq(B), NEW z \in Seq(B)
    PROVE  Regroups(x, y, z)
    BY ConcatAssociative DEF Regroups

(* The two parts of a text.                                                 *)
LEMMA PartsOf ==
    ASSUME NEW B, NEW text \in Seq(B), NEW n \in 0 .. Len(text)
    PROVE  LET a == SubSeq(text, 1, n)
               b == SubSeq(text, n + 1, Len(text))
           IN  /\ a \in Seq(B) /\ Len(a) = n
               /\ \A i \in 1 .. n : a[i] = text[i]
               /\ b \in Seq(B) /\ Len(b) = Len(text) - n
               /\ \A i \in 1 .. Len(text) - n : b[i] = text[n + i]
               /\ text = a \o b
<1> DEFINE a == SubSeq(text, 1, n)
           b == SubSeq(text, n + 1, Len(text))
<1>1. Len(text) \in Nat /\ n \in Nat
    OBVIOUS
<1>2. a \in Seq(B) /\ Len(a) = n /\ \A i \in 1 .. n : a[i] = text[i]
    <2>1. \A i \in 1 .. n : text[i] \in B
        BY <1>1
    <2>2. /\ a \in Seq(B) /\ Len(a) = IF 1 <= n THEN n - 1 + 1 ELSE 0
          /\ \A i \in 1 .. n - 1 + 1 : a[i] = text[1 + i - 1]
        BY <1>1, <2>1, SubSeqProperties
    <2> HIDE DEF a
    <2> QED
        BY <1>1, <2>2
<1>3. /\ b \in Seq(B) /\ Len(b) = Len(text) - n
      /\ \A i \in 1 .. Len(text) - n : b[i] = text[n + i]
    <2>1. \A i \in n + 1 .. Len(text) : text[i] \in B
        BY <1>1
    <2>2. /\ b \in Seq(B)
          /\ Len(b) = IF n + 1 <= Len(text) THEN Len(text) - (n + 1) + 1 ELSE 0
          /\ \A i \in 1 .. Len(text) - (n + 1) + 1 : b[i] = text[n + 1 + i - 1]
        BY <1>1, <2>1, SubSeqProperties
    <2> HIDE DEF b
    <2> QED
        BY <1>1, <2>2
<1> HIDE DEF a, b
<1>4. text = a \o b
    <2>1. /\ a \o b \in Seq(B) /\ Len(a \o b) = Len(a) + Len(b)
          /\ \A i \in 1 .. Len(a) + Len(b) :
                (a \o b)[i] = IF i <= Len(a) THEN a[i] ELSE b[i - Len(a)]
        BY <1>2, <1>3, ConcatProperties
    <2>2. Len(a \o b) = Len(text)
        BY <1>1, <1>2, <1>3, <2>1
    <2>3. ASSUME NEW i \in 1 .. Len(text)
          PROVE  text[i] = (a \o b)[i]
        <3>1. CASE i <= n
            BY <1>1, <1>2, <1>3, <2>1, <3>1
        <3>2. CASE i > n
            <4>1. i - n \in 1 .. Len(text) - n /\ n + (i - n) = i
                BY <1>1, <3>2
            <4>2. b[i - n] = text[i]
                BY <1>3, <4>1
            <4> QED
                BY <1>1, <1>2, <1>3, <2>1, <3>2, <4>2
        <3>3. i <= n \/ i > n
            BY <1>1
        <3> QED
            BY <3>1, <3>2, <3>3
    <2> QED
        BY <2>1, <2>2, <2>3, SeqEqual
<1> QED
    BY <1>2, <1>3, <1>4 DEF a, b

(* An occurrence in the text that begins in the first n symbols and ends    *)
(* after them.                                                              *)
Straddles(text, secret, n) ==
    \E i \in 1 .. n : OccursAt(text, secret, i) /\ i + Len(secret) - 1 > n

(* A text that no occurrence straddles at n is redacted part by part.       *)
LEMMA RedactSplit ==
    ASSUME NEW B, NEW text \in Seq(B), NEW secret \in Seq(B), secret # <<>>,
           Alphabet(B), NEW n \in 0 .. Len(text),
           ~Straddles(text, secret, n)
    PROVE  Redact(text, secret)
             = Redact(SubSeq(text, 1, n), secret)
                 \o Redact(SubSeq(text, n + 1, Len(text)), secret)
<1> DEFINE a == SubSeq(text, 1, n)
           b == SubSeq(text, n + 1, Len(text))
<1>1. PICK from \in [Places(text) -> Seq(B)] :
         IsRedaction(from, text, secret, <<>>) /\ Redact(text, secret) = from[1]
    BY RedactUnfolds
<1>2. Len(text) \in Nat /\ Len(secret) \in Nat \ {0} /\ n \in Nat
    OBVIOUS
<1>3. /\ a \in Seq(B) /\ Len(a) = n
      /\ \A i \in 1 .. n : a[i] = text[i]
      /\ b \in Seq(B) /\ Len(b) = Len(text) - n
      /\ \A i \in 1 .. Len(text) - n : b[i] = text[n + i]
    BY PartsOf
<1>4. /\ from[Len(text) + 1] = <<>>
      /\ \A i \in 1 .. Len(text) :
            /\ OccursAt(text, secret, i) =>
                  from[i] = <<Redacted>> \o from[i + Len(secret)]
            /\ ~OccursAt(text, secret, i) =>
                  from[i] = <<text[i]>> \o from[i + 1]
    BY <1>1, <1>2, RedactionSteps
<1> HIDE DEF a, b
<1>5. \A i \in 1 .. Len(text) - n :
         OccursAt(b, secret, i) <=> OccursAt(text, secret, n + i)
    <2> SUFFICES ASSUME NEW i \in 1 .. Len(text) - n
                 PROVE  OccursAt(b, secret, i) <=> OccursAt(text, secret, n + i)
        OBVIOUS
    <2>1. i \in Nat \ {0} /\ n + i \in Nat \ {0}
        BY <1>2
    <2>b. b \in Seq(B)
        BY <1>3
    <2>2. OccursAt(b, secret, i) <=>
             /\ i + Len(secret) - 1 <= Len(b)
             /\ \A k \in 1 .. Len(secret) : b[i + k - 1] = secret[k]
        BY <2>b, <2>1, OccursIff
    <2>3. OccursAt(text, secret, n + i) <=>
             /\ n + i + Len(secret) - 1 <= Len(text)
             /\ \A k \in 1 .. Len(secret) : text[n + i + k - 1] = secret[k]
        BY <2>1, OccursIff
    <2>4. i + Len(secret) - 1 <= Len(b) <=> n + i + Len(secret) - 1 <= Len(text)
        BY <1>2, <1>3
    <2>5. ASSUME i + Len(secret) - 1 <= Len(b), NEW k \in 1 .. Len(secret)
          PROVE  b[i + k - 1] = text[n + i + k - 1]
        <3>1. i + k - 1 \in 1 .. Len(text) - n /\ n + (i + k - 1) = n + i + k - 1
            BY <1>2, <1>3, <2>5
        <3> QED
            BY <1>3, <3>1
    <2> QED
        BY <2>2, <2>3, <2>4, <2>5
<1>6. \A i \in 1 .. n : OccursAt(a, secret, i) <=> OccursAt(text, secret, i)
    <2> SUFFICES ASSUME NEW i \in 1 .. n
                 PROVE  OccursAt(a, secret, i) <=> OccursAt(text, secret, i)
        OBVIOUS
    <2>1. i \in Nat \ {0}
        BY <1>2
    <2>2. OccursAt(a, secret, i) <=>
             /\ i + Len(secret) - 1 <= n
             /\ \A k \in 1 .. Len(secret) : a[i + k - 1] = secret[k]
        BY <1>3, <2>1, OccursIff, SMTT(60)
    <2>3. OccursAt(text, secret, i) <=>
             /\ i + Len(secret) - 1 <= Len(text)
             /\ \A k \in 1 .. Len(secret) : text[i + k - 1] = secret[k]
        BY <2>1, OccursIff
    <2>4. OccursAt(text, secret, i) => i + Len(secret) - 1 <= n
        BY <1>2 DEF Straddles
    <2>5. ASSUME i + Len(secret) - 1 <= n, NEW k \in 1 .. Len(secret)
          PROVE  a[i + k - 1] = text[i + k - 1]
        <3>1. i + k - 1 \in 1 .. n
            BY <1>2, <2>5
        <3> QED
            BY <1>3, <3>1
    <2> QED
        BY <1>2, <2>2, <2>3, <2>4, <2>5
<1>7. from[n + 1] = Redact(b, secret)
    <2> DEFINE h == [i \in Places(b) |-> from[n + i]]
    <2>1. 1 \in Places(b)
        BY <1>2, <1>3 DEF Places
    <2>2. h[1] = from[n + 1]
        BY <2>1
    <2>3. ASSUME NEW i \in Places(b)
          PROVE  h[i] = IF i > Len(b) THEN <<>>
                        ELSE IF OccursAt(b, secret, i)
                             THEN <<Redacted>> \o h[i + Len(secret)]
                             ELSE <<b[i]>> \o h[i + 1]
        <3>1. CASE i = Len(b) + 1
            <4>1. n + i = Len(text) + 1
                BY <1>2, <1>3, <3>1
            <4>2. i > Len(b)
                BY <1>2, <1>3, <3>1
            <4> QED
                BY <1>4, <4>1, <4>2
        <3>2. CASE i \in 1 .. Len(b) /\ OccursAt(b, secret, i)
            <4>1. n + i \in 1 .. Len(text) /\ OccursAt(text, secret, n + i)
                BY <1>2, <1>3, <1>5, <3>2
            <4>2. from[n + i] = <<Redacted>> \o from[n + i + Len(secret)]
                BY <1>4, <4>1
            <4>3. i + Len(secret) \in Places(b)
                BY <1>2, <1>3, <3>2, OccurrenceFits DEF Places
            <4>4. n + (i + Len(secret)) = n + i + Len(secret)
                BY <1>2, <3>2
            <4>5. h[i + Len(secret)] = from[n + i + Len(secret)]
                BY <4>3, <4>4
            <4>6. h[i] = from[n + i] /\ ~(i > Len(b))
                BY <1>2, <1>3, <3>2
            <4> HIDE DEF h
            <4> QED
                BY <3>2, <4>2, <4>5, <4>6
        <3>3. CASE i \in 1 .. Len(b) /\ ~OccursAt(b, secret, i)
            <4>1. n + i \in 1 .. Len(text) /\ ~OccursAt(text, secret, n + i)
                BY <1>2, <1>3, <1>5, <3>3
            <4>2. from[n + i] = <<text[n + i]>> \o from[n + i + 1]
                BY <1>4, <4>1
            <4>3. i + 1 \in Places(b)
                BY <1>2, <1>3, <3>3 DEF Places
            <4>t. text[n + i] = b[i]
                BY <1>3, <3>3
            <4>4. n + (i + 1) = n + i + 1
                BY <1>2, <3>3
            <4>5. h[i + 1] = from[n + i + 1]
                BY <4>3, <4>4
            <4>6. h[i] = from[n + i] /\ ~(i > Len(b))
                BY <1>2, <1>3, <3>3
            <4> HIDE DEF h
            <4> QED
                BY <3>3, <4>2, <4>t, <4>5, <4>6
        <3>4. i = Len(b) + 1 \/ i \in 1 .. Len(b)
            BY <1>2, <1>3 DEF Places
        <3> HIDE DEF h
        <3> QED
            BY <3>1, <3>2, <3>3, <3>4
    <2> HIDE DEF h
    <2>4. IsRedaction(h, b, secret, <<>>)
        BY <2>3 DEF IsRedaction
    <2>5. PICK w : IsRedaction(w, b, secret, <<>>) /\ w[1] = from[n + 1]
        BY <2>2, <2>4
    <2>6. <<>> \in Seq(B)
        OBVIOUS
    <2>b. b \in Seq(B) /\ IsRedaction(w, b, secret, <<>>)
        BY <1>3, <2>5
    <2>7. w[1] = Redact(b, secret) \o <<>>
        BY <2>b, <2>6, RedactOnto, Zenon
    <2>8. Redact(b, secret) \in Seq(B)
        BY <1>3, RedactType
    <2> QED
        BY <2>5, <2>7, <2>8, ConcatEmptySeq
<1>8. Redact(b, secret) \in Seq(B)
    BY <1>3, RedactType
<1>9. from[1] = Redact(a, secret) \o Redact(b, secret)
    <2>1. ASSUME NEW i \in Places(a)
          PROVE  from[i] = IF i > Len(a) THEN Redact(b, secret)
                           ELSE IF OccursAt(a, secret, i)
                                THEN <<Redacted>> \o from[i + Len(secret)]
                                ELSE <<a[i]>> \o from[i + 1]
        <3>1. CASE i = n + 1
            BY <1>2, <1>3, <1>7, <3>1
        <3>2. CASE i \in 1 .. n
            <4>1. i \in 1 .. Len(text) /\ ~(i > Len(a)) /\ a[i] = text[i]
                BY <1>2, <1>3, <3>2
            <4>2. OccursAt(a, secret, i) <=> OccursAt(text, secret, i)
                BY <1>6, <3>2
            <4> QED
                BY <1>4, <4>1, <4>2
        <3>3. i = n + 1 \/ i \in 1 .. n
            BY <1>2, <1>3 DEF Places
        <3> QED
            BY <3>1, <3>2, <3>3
    <2>2. IsRedaction(from, a, secret, Redact(b, secret))
        BY <2>1 DEF IsRedaction
    <2>3. a \in Seq(B)
        BY <1>3
    <2> QED
        BY <1>8, <2>2, <2>3, RedactOnto, Zenon
<1> QED
    BY <1>1, <1>9 DEF a, b

(* Where FlushLen stands at each position.                                  *)
Boundary(text, secret) == Len(text) - (Len(secret) - 1)
FirstLook(text, secret) ==
    IF Boundary(text, secret) < Len(secret) THEN 1
    ELSE Boundary(text, secret) - Len(secret) + 2
Looks(text, secret) == FirstLook(text, secret) .. Len(text) + 1
IsFlush(flush, text, secret) ==
    \A i \in Looks(text, secret) :
        flush[i] = IF i = FirstLook(text, secret) THEN Boundary(text, secret)
                   ELSE IF i - 1 <= flush[i - 1] /\ OccursAt(text, secret, i - 1)
                        THEN i - 1 + Len(secret) - 1
                        ELSE flush[i - 1]

LookRank(text, secret) ==
    [i \in Looks(text, secret) |-> i - FirstLook(text, secret)]
LookBack(text, secret) == [i \in Looks(text, secret) |-> i - 1]
AtBoundary(text, secret) ==
    [i \in Looks(text, secret) |-> Boundary(text, secret)]
PastOccurrence(text, secret) ==
    [i \in Looks(text, secret) |->
        [n \in 0 .. Len(text) |->
            IF i - 1 <= n /\ OccursAt(text, secret, i - 1)
            THEN i - 1 + Len(secret) - 1 ELSE n]]

LEMMA FlushTables ==
    ASSUME NEW B, NEW text \in Seq(B), NEW secret \in Seq(B), secret # <<>>,
           Boundary(text, secret) > 0
    PROVE  /\ Tables(Looks(text, secret), 0 .. Len(text), Len(text),
                     LookRank(text, secret), LookBack(text, secret),
                     AtBoundary(text, secret), PastOccurrence(text, secret))
           /\ FirstLook(text, secret) \in 1 .. Len(text) + 1
           /\ Boundary(text, secret) \in 1 .. Len(text)
<1>1. Len(text) \in Nat /\ Len(secret) \in Nat \ {0}
    OBVIOUS
<1>2. Boundary(text, secret) \in 1 .. Len(text)
    BY <1>1 DEF Boundary
<1>3. FirstLook(text, secret) \in 1 .. Len(text) + 1
    BY <1>1, <1>2 DEF FirstLook, Boundary
<1>4. LookRank(text, secret) \in [Looks(text, secret) -> 0 .. Len(text)]
    BY <1>1, <1>3 DEF LookRank, Looks
<1>5. AtBoundary(text, secret) \in [Looks(text, secret) -> 0 .. Len(text)]
    BY <1>1, <1>2 DEF AtBoundary
<1>6. ASSUME NEW i \in Looks(text, secret), LookRank(text, secret)[i] # 0
      PROVE  /\ LookBack(text, secret)[i] \in Looks(text, secret)
             /\ LookRank(text, secret)[LookBack(text, secret)[i]]
                  < LookRank(text, secret)[i]
    <2>1. i - 1 \in Looks(text, secret)
        BY <1>1, <1>3, <1>6 DEF LookRank, Looks
    <2> QED
        BY <1>1, <1>3, <2>1 DEF LookRank, LookBack, Looks
<1>7. PastOccurrence(text, secret)
         \in [Looks(text, secret) -> [0 .. Len(text) -> 0 .. Len(text)]]
    <2>1. ASSUME NEW i \in Looks(text, secret), NEW n \in 0 .. Len(text)
          PROVE  (IF i - 1 <= n /\ OccursAt(text, secret, i - 1)
                  THEN i - 1 + Len(secret) - 1 ELSE n) \in 0 .. Len(text)
        <3>1. i \in Nat \ {0}
            BY <1>1, <1>3 DEF Looks
        <3>2. OccursAt(text, secret, i - 1)
                 => i - 1 + Len(secret) - 1 <= Len(text)
            BY OccurrenceFits
        <3> QED
            BY <1>1, <3>1, <3>2
    <2> QED
        BY <2>1 DEF PastOccurrence
<1> QED
    BY <1>1, <1>2, <1>3, <1>4, <1>5, <1>6, <1>7 DEF Tables

LEMMA FlushComputed ==
    ASSUME NEW B, NEW text \in Seq(B), NEW secret \in Seq(B), secret # <<>>,
           Boundary(text, secret) > 0, NEW flush,
           IsFlush(flush, text, secret)
    PROVE  Computes(flush, Looks(text, secret), 0 .. Len(text),
                    LookRank(text, secret), LookBack(text, secret),
                    AtBoundary(text, secret), PastOccurrence(text, secret))
<1>1. Len(text) \in Nat /\ FirstLook(text, secret) \in 1 .. Len(text) + 1
    BY FlushTables
<1>2. ASSUME NEW i \in Looks(text, secret), LookRank(text, secret)[i] = 0
      PROVE  flush[i] = AtBoundary(text, secret)[i]
    <2>1. i = FirstLook(text, secret)
        BY <1>1, <1>2 DEF LookRank, Looks
    <2> QED
        BY <1>2, <2>1 DEF IsFlush, AtBoundary
<1>3. ASSUME NEW i \in Looks(text, secret), LookRank(text, secret)[i] # 0,
             flush[LookBack(text, secret)[i]] \in 0 .. Len(text)
      PROVE  flush[i] = PastOccurrence(text, secret)[i][flush[LookBack(text, secret)[i]]]
    <2> DEFINE n == flush[LookBack(text, secret)[i]]
    <2>1. i # FirstLook(text, secret)
        BY <1>1, <1>3 DEF LookRank, Looks
    <2>2. n = flush[i - 1]
        BY DEF LookBack
    <2>3. flush[i] = IF i - 1 <= n /\ OccursAt(text, secret, i - 1)
                     THEN i - 1 + Len(secret) - 1 ELSE n
        BY <1>3, <2>1, <2>2 DEF IsFlush
    <2>4. n \in 0 .. Len(text)
        BY <1>3
    <2> HIDE DEF n
    <2>5. PastOccurrence(text, secret)[i][n]
             = IF i - 1 <= n /\ OccursAt(text, secret, i - 1)
               THEN i - 1 + Len(secret) - 1 ELSE n
        BY <1>3, <2>4 DEF PastOccurrence
    <2> QED
        BY <2>3, <2>5 DEF n
<1> QED
    BY <1>2, <1>3 DEF Computes

LEMMA FlushExists ==
    ASSUME NEW B, NEW text \in Seq(B), NEW secret \in Seq(B), secret # <<>>,
           Boundary(text, secret) > 0
    PROVE  \E flush \in [Looks(text, secret) -> 0 .. Len(text)] :
              IsFlush(flush, text, secret)
<1>1. /\ Tables(Looks(text, secret), 0 .. Len(text), Len(text),
                LookRank(text, secret), LookBack(text, secret),
                AtBoundary(text, secret), PastOccurrence(text, secret))
      /\ Len(text) \in Nat /\ FirstLook(text, secret) \in 1 .. Len(text) + 1
    BY FlushTables
<1>2. PICK f \in [Looks(text, secret) -> 0 .. Len(text)] :
         Computes(f, Looks(text, secret), 0 .. Len(text),
                  LookRank(text, secret), LookBack(text, secret),
                  AtBoundary(text, secret), PastOccurrence(text, secret))
    BY <1>1, FunctionExists
<1>3. ASSUME NEW i \in Looks(text, secret)
      PROVE  f[i] = IF i = FirstLook(text, secret) THEN Boundary(text, secret)
                    ELSE IF i - 1 <= f[i - 1] /\ OccursAt(text, secret, i - 1)
                         THEN i - 1 + Len(secret) - 1
                         ELSE f[i - 1]
    <2>1. CASE i = FirstLook(text, secret)
        <3>1. LookRank(text, secret)[i] = 0
            BY <1>1, <2>1 DEF LookRank
        <3> QED
            BY <1>2, <2>1, <3>1 DEF Computes, AtBoundary
    <2>2. CASE i # FirstLook(text, secret)
        <3> DEFINE n == f[i - 1]
        <3>1. LookRank(text, secret)[i] # 0 /\ i - 1 \in Looks(text, secret)
            BY <1>1, <2>2 DEF LookRank, Looks
        <3>2. n \in 0 .. Len(text)
            BY <1>2, <3>1
        <3>3. LookBack(text, secret)[i] = i - 1
            BY DEF LookBack
        <3>4. f[i] = PastOccurrence(text, secret)[i][n]
            BY <1>2, <3>1, <3>2, <3>3 DEF Computes
        <3> HIDE DEF n
        <3>5. f[i] = IF i - 1 <= n /\ OccursAt(text, secret, i - 1)
                     THEN i - 1 + Len(secret) - 1 ELSE n
            BY <3>2, <3>4 DEF PastOccurrence
        <3> QED
            BY <2>2, <3>5 DEF n
    <2> QED
        BY <2>1, <2>2
<1> QED
    BY <1>3 DEF IsFlush

LEMMA FlushUnfolds ==
    ASSUME NEW B, NEW text \in Seq(B), NEW secret \in Seq(B), secret # <<>>,
           Boundary(text, secret) > 0
    PROVE  \E flush :
              /\ \A i \in Looks(text, secret) : flush[i] \in 0 .. Len(text)
              /\ IsFlush(flush, text, secret)
              /\ FlushLen(text, secret) = flush[Len(text) + 1]
<1> DEFINE flush == CHOOSE flush :
              flush = [i \in FirstLook(text, secret) .. Len(text) + 1 |->
                  IF i = FirstLook(text, secret) THEN Boundary(text, secret)
                  ELSE IF i - 1 <= flush[i - 1] /\ OccursAt(text, secret, i - 1)
                       THEN i - 1 + Len(secret) - 1
                       ELSE flush[i - 1]]
<1>1. PICK f \in [Looks(text, secret) -> 0 .. Len(text)] :
         IsFlush(f, text, secret)
    BY FlushExists
<1>2. f = [i \in FirstLook(text, secret) .. Len(text) + 1 |->
                  IF i = FirstLook(text, secret) THEN Boundary(text, secret)
                  ELSE IF i - 1 <= f[i - 1] /\ OccursAt(text, secret, i - 1)
                       THEN i - 1 + Len(secret) - 1
                       ELSE f[i - 1]]
    BY <1>1 DEF IsFlush, Looks
<1>3. flush = [i \in FirstLook(text, secret) .. Len(text) + 1 |->
                  IF i = FirstLook(text, secret) THEN Boundary(text, secret)
                  ELSE IF i - 1 <= flush[i - 1] /\ OccursAt(text, secret, i - 1)
                       THEN i - 1 + Len(secret) - 1
                       ELSE flush[i - 1]]
    BY <1>2
<1>4. Boundary(text, secret) \in Nat /\ ~(Boundary(text, secret) <= 0)
    BY FlushTables
<1>5. FlushLen(text, secret) = flush[Len(text) + 1]
    BY <1>4 DEF FlushLen, Boundary, FirstLook
<1> HIDE DEF flush
<1>6. IsFlush(flush, text, secret)
    BY <1>3 DEF IsFlush, Looks
<1>7. \A i \in Looks(text, secret) : flush[i] \in 0 .. Len(text)
    <2>1. Computes(flush, Looks(text, secret), 0 .. Len(text),
                   LookRank(text, secret), LookBack(text, secret),
                   AtBoundary(text, secret), PastOccurrence(text, secret))
        BY <1>6, FlushComputed
    <2>2. Tables(Looks(text, secret), 0 .. Len(text), Len(text),
                 LookRank(text, secret), LookBack(text, secret),
                 AtBoundary(text, secret), PastOccurrence(text, secret))
        BY FlushTables
    <2> QED
        BY <2>1, <2>2, FunctionTyped
<1> QED
    BY <1>5, <1>6, <1>7

(* FlushLen is at or behind the boundary, where an occurrence ends if it    *)
(* has moved, and every occurrence ends before it or begins behind it.      *)
LEMMA FlushClear ==
    ASSUME NEW B, NEW text \in Seq(B), NEW secret \in Seq(B), secret # <<>>,
           Boundary(text, secret) > 0
    PROVE  LET n == FlushLen(text, secret) IN
           /\ n \in Boundary(text, secret) .. Len(text)
           /\ \/ n = Boundary(text, secret)
              \/ \E j \in 1 .. Len(text) :
                    OccursAt(text, secret, j) /\ n = j + Len(secret) - 1
           /\ \A j \in 1 .. Len(text) :
                 OccursAt(text, secret, j) => j + Len(secret) - 1 <= n \/ j > n
<1>1. PICK flush :
         /\ \A i \in Looks(text, secret) : flush[i] \in 0 .. Len(text)
         /\ IsFlush(flush, text, secret)
         /\ FlushLen(text, secret) = flush[Len(text) + 1]
    BY FlushUnfolds
<1>2. /\ Len(text) \in Nat /\ Len(secret) \in Nat \ {0}
      /\ FirstLook(text, secret) \in 1 .. Len(text) + 1
      /\ Boundary(text, secret) \in 1 .. Len(text)
    BY FlushTables
<1> DEFINE first == FirstLook(text, secret)
           boundary == Boundary(text, secret)
           L == Len(secret)
           Clear(i) ==
              /\ flush[i] >= boundary
              /\ \/ flush[i] = boundary
                 \/ \E j \in first .. i - 1 :
                       OccursAt(text, secret, j) /\ flush[i] = j + L - 1
              /\ \A j \in first .. i - 1 :
                    OccursAt(text, secret, j) => j + L - 1 <= flush[i] \/ j > flush[i]
           T == {m \in Nat : first + m <= Len(text) + 1 => Clear(first + m)}
<1>3. first \in Looks(text, secret) /\ Looks(text, secret) = first .. Len(text) + 1
    BY <1>2 DEF Looks
<1>4. first + L - 1 > boundary
    BY <1>2 DEF FirstLook
<1>5. Clear(first)
    <2>1. flush[first] = boundary
        BY <1>1, <1>3 DEF IsFlush
    <2>2. first .. first - 1 = {}
        BY <1>2
    <2> HIDE DEF first, boundary
    <2>3. boundary \in Int
        BY <1>2 DEF boundary
    <2> QED
        BY <2>1, <2>2, <2>3
<1>6. ASSUME NEW i \in first .. Len(text), Clear(i)
      PROVE  Clear(i + 1)
    <2>1. /\ i \in Looks(text, secret) /\ i + 1 \in Looks(text, secret)
          /\ i + 1 # first /\ i + 1 - 1 = i /\ i \in Nat
        BY <1>2, <1>3
    <2>2. flush[i + 1] = IF i <= flush[i] /\ OccursAt(text, secret, i)
                         THEN i + L - 1 ELSE flush[i]
        BY <1>1, <2>1 DEF IsFlush
    <2>3. flush[i] \in Nat /\ flush[i + 1] \in Nat
        BY <1>1, <2>1
    <2>4. first .. i + 1 - 1 = (first .. i - 1) \cup {i}
        BY <1>2
    <2>b. boundary \in Nat /\ first \in Nat /\ L \in Nat \ {0}
        BY <1>2
    <2> HIDE DEF first, boundary, L
    <2>5. CASE i <= flush[i] /\ OccursAt(text, secret, i)
        <3>1. flush[i + 1] = i + L - 1
            BY <2>2, <2>5
        <3>2. flush[i + 1] >= boundary
            BY <1>4, <2>1, <2>b, <3>1
        <3>3. i \in first .. i + 1 - 1
            BY <2>4
        <3>4. \A j \in first .. i + 1 - 1 : j + L - 1 <= flush[i + 1]
            BY <2>1, <2>b, <3>1
        <3> QED
            BY <2>5, <3>1, <3>2, <3>3, <3>4
    <2>6. CASE ~(i <= flush[i] /\ OccursAt(text, secret, i))
        <3>1. flush[i + 1] = flush[i]
            BY <2>2, <2>6
        <3>2. OccursAt(text, secret, i) => i > flush[i]
            BY <2>1, <2>3, <2>6
        <3>3. first .. i - 1 \subseteq first .. i + 1 - 1
            BY <2>4
        <3>4. \/ flush[i + 1] = boundary
              \/ \E j \in first .. i + 1 - 1 :
                    OccursAt(text, secret, j) /\ flush[i + 1] = j + L - 1
            BY <1>6, <3>1, <3>3
        <3>5. \A j \in first .. i + 1 - 1 :
                 OccursAt(text, secret, j)
                    => j + L - 1 <= flush[i + 1] \/ j > flush[i + 1]
            BY <1>6, <2>4, <3>1, <3>2
        <3> QED
            BY <1>6, <3>1, <3>4, <3>5
    <2> QED
        BY <2>5, <2>6
<1>7. Clear(Len(text) + 1)
    <2> HIDE DEF Clear
    <2>1. 0 \in T
        BY <1>2, <1>5
    <2>2. ASSUME NEW m \in Nat, m \in T
          PROVE  m + 1 \in T
        <3>1. CASE first + (m + 1) <= Len(text) + 1
            <4>1. first + m \in first .. Len(text) /\ first + (m + 1) = first + m + 1
                BY <1>2, <3>1
            <4>2. Clear(first + m)
                BY <1>2, <2>2, <4>1
            <4> QED
                BY <1>6, <4>1, <4>2
        <3>2. CASE ~(first + (m + 1) <= Len(text) + 1)
            BY <3>2
        <3> QED
            BY <3>1, <3>2
    <2>3. Nat \subseteq T
        <3> HIDE DEF T
        <3> QED
            BY <2>1, <2>2, SetInduction
    <2> DEFINE m == Len(text) + 1 - first
    <2>4. m \in Nat /\ first + m = Len(text) + 1
        BY <1>2
    <2>5. m \in T
        BY <2>3, <2>4
    <2> QED
        BY <1>2, <2>4, <2>5
<1>8. flush[Len(text) + 1] \in boundary .. Len(text)
    BY <1>1, <1>2, <1>3, <1>7
<1>9. \A j \in 1 .. first - 1 : j + L - 1 <= boundary
    BY <1>2 DEF FirstLook
<1> DEFINE n == flush[Len(text) + 1]
<1>10. \A j \in 1 .. Len(text) :
          OccursAt(text, secret, j) => j + L - 1 <= n \/ j > n
    <2> SUFFICES ASSUME NEW j \in 1 .. Len(text), OccursAt(text, secret, j)
                 PROVE  j + L - 1 <= n \/ j > n
        OBVIOUS
    <2>1. CASE j \in first .. Len(text) + 1 - 1
        BY <1>7, <2>1
    <2>2. CASE j \in 1 .. first - 1
        <3>1. j + L - 1 <= boundary /\ boundary <= n
            BY <1>2, <1>8, <1>9, <2>2
        <3>2. j \in Int /\ L \in Int /\ boundary \in Int /\ n \in Int
            BY <1>2, <1>8
        <3> HIDE DEF L, boundary, n
        <3> QED
            BY <3>1, <3>2
    <2> QED
        BY <1>2, <2>1, <2>2
<1>11. \/ n = boundary
       \/ \E j \in 1 .. Len(text) : OccursAt(text, secret, j) /\ n = j + L - 1
    <2>1. first .. Len(text) + 1 - 1 \subseteq 1 .. Len(text)
        BY <1>2
    <2> QED
        BY <1>7, <2>1
<1> QED
    BY <1>1, <1>8, <1>10, <1>11

LEMMA FlushLenType ==
    ASSUME NEW B, NEW text \in Seq(B), NEW secret \in Seq(B)
    PROVE  FlushLen(text, secret) \in 0 .. Len(text)
<1>1. Len(text) \in Nat /\ Len(secret) \in Nat
    OBVIOUS
<1>2. CASE secret = <<>>
    BY <1>1, <1>2 DEF FlushLen
<1>3. CASE secret # <<>> /\ Boundary(text, secret) > 0
    <2>1. FlushLen(text, secret) \in Boundary(text, secret) .. Len(text)
        BY <1>3, FlushClear
    <2> QED
        BY <1>1, <1>3, <2>1 DEF Boundary
<1>4. CASE secret # <<>> /\ ~(Boundary(text, secret) > 0)
    BY <1>1, <1>4 DEF FlushLen, Boundary
<1> QED
    BY <1>2, <1>3, <1>4

LEMMA ConcatParts ==
    ASSUME NEW B, NEW a \in Seq(B), NEW b \in Seq(B)
    PROVE  /\ SubSeq(a \o b, 1, Len(a)) = a
           /\ SubSeq(a \o b, Len(a) + 1, Len(a \o b)) = b
<1> DEFINE text == a \o b
           n == Len(a)
           x == SubSeq(text, 1, n)
           y == SubSeq(text, n + 1, Len(text))
<1>1. /\ text \in Seq(B) /\ Len(text) = Len(a) + Len(b)
      /\ \A i \in 1 .. Len(a) + Len(b) :
            text[i] = IF i <= Len(a) THEN a[i] ELSE b[i - Len(a)]
    BY ConcatProperties
<1>2. Len(a) \in Nat /\ Len(b) \in Nat
    OBVIOUS
<1> HIDE DEF text
<1>3. n \in 0 .. Len(text) /\ text \in Seq(B)
    BY <1>1, <1>2
<1>4. /\ x \in Seq(B) /\ Len(x) = n
      /\ \A i \in 1 .. n : x[i] = text[i]
      /\ y \in Seq(B) /\ Len(y) = Len(text) - n
      /\ \A i \in 1 .. Len(text) - n : y[i] = text[n + i]
    BY <1>3, PartsOf
<1> HIDE DEF x, y
<1>5. x = a
    <2>1. \A i \in 1 .. Len(x) : x[i] = a[i]
        BY <1>1, <1>2, <1>4
    <2>2. Len(x) = Len(a) /\ x \in Seq(B)
        BY <1>4
    <2> QED
        BY <2>1, <2>2, SeqEqual
<1>6. y = b
    <2>1. Len(y) = Len(b) /\ y \in Seq(B)
        BY <1>1, <1>2, <1>4
    <2>2. ASSUME NEW i \in 1 .. Len(y)
          PROVE  y[i] = b[i]
        <3>1. /\ n + i \in 1 .. Len(a) + Len(b) /\ ~(n + i <= Len(a))
              /\ n + i - Len(a) = i /\ i \in 1 .. Len(text) - n
            BY <1>1, <1>2, <2>1
        <3>2. y[i] = text[n + i]
            BY <1>4, <3>1
        <3>3. text[n + i] = b[n + i - Len(a)]
            BY <1>1, <3>1
        <3> HIDE DEF n
        <3> QED
            BY <3>1, <3>2, <3>3
    <2> QED
        BY <2>1, <2>2, SeqEqual
<1> QED
    BY <1>5, <1>6 DEF x, y, text

LEMMA RedactConcat ==
    ASSUME NEW B, NEW a \in Seq(B), NEW b \in Seq(B), NEW secret \in Seq(B),
           secret # <<>>, Alphabet(B), ~Straddles(a \o b, secret, Len(a))
    PROVE  Redact(a \o b, secret) = Redact(a, secret) \o Redact(b, secret)
<1>1. a \o b \in Seq(B) /\ Len(a) \in 0 .. Len(a \o b)
    BY ConcatProperties
<1>2. Redact(a \o b, secret)
        = Redact(SubSeq(a \o b, 1, Len(a)), secret)
            \o Redact(SubSeq(a \o b, Len(a) + 1, Len(a \o b)), secret)
    BY <1>1, RedactSplit
<1> QED
    BY <1>2, ConcatParts

LEMMA RedactEmpty ==
    ASSUME NEW B, NEW secret \in Seq(B), Alphabet(B)
    PROVE  Redact(<<>>, secret) = <<>>
<1>1. CASE secret = <<>>
    BY <1>1 DEF Redact
<1>2. CASE secret # <<>>
    <2> DEFINE text == <<>>
    <2>1. text \in Seq(B) /\ Len(text) = 0
        OBVIOUS
    <2>2. Len(text) \in Nat /\ Len(text) + 1 = 1
        OBVIOUS
    <2> HIDE DEF text
    <2>3. PICK from \in [Places(text) -> Seq(B)] :
             IsRedaction(from, text, secret, <<>>) /\ Redact(text, secret) = from[1]
        BY <1>2, <2>1, RedactUnfolds
    <2>4. from[Len(text) + 1] = <<>>
        BY <2>2, <2>3, RedactionSteps
    <2> QED
        BY <2>2, <2>3, <2>4 DEF text
<1> QED
    BY <1>1, <1>2

(* What FlushLen passes on is not touched by what comes later.              *)
LEMMA FlushNotStraddled ==
    ASSUME NEW B, NEW text \in Seq(B), NEW rest \in Seq(B),
           NEW secret \in Seq(B), secret # <<>>, Borderless(secret)
    PROVE  ~Straddles(text \o rest, secret, FlushLen(text, secret))
<1> DEFINE n == FlushLen(text, secret)
           L == Len(secret)
           boundary == Boundary(text, secret)
           whole == text \o rest
<1>1. Len(text) \in Nat /\ L \in Nat \ {0} /\ Len(rest) \in Nat
    OBVIOUS
<1>2. n \in 0 .. Len(text)
    BY FlushLenType
<1>3. /\ whole \in Seq(B) /\ Len(whole) = Len(text) + Len(rest)
      /\ \A i \in 1 .. Len(text) : whole[i] = text[i]
    BY ConcatProperties
<1>4. boundary = Len(text) - L + 1
    BY <1>1 DEF Boundary
<1> SUFFICES ASSUME NEW i \in 1 .. n, OccursAt(whole, secret, i), i + L - 1 > n
             PROVE  FALSE
    BY DEF Straddles
<1>5. boundary > 0
    BY <1>1, <1>2 DEF FlushLen, Boundary
<1>6. /\ n \in boundary .. Len(text)
      /\ \/ n = boundary
         \/ \E j \in 1 .. Len(text) : OccursAt(text, secret, j) /\ n = j + L - 1
      /\ \A j \in 1 .. Len(text) :
            OccursAt(text, secret, j) => j + L - 1 <= n \/ j > n
    BY <1>5, FlushClear
<1> HIDE DEF n, boundary, whole
<1>7. i \in Nat \ {0} /\ i \in 1 .. Len(text)
    BY <1>1, <1>2
<1>8. \A k \in 1 .. L : whole[i + k - 1] = secret[k]
    BY <1>3, <1>7, OccursIff
<1>9. CASE i + L - 1 <= Len(text)
    <2>1. \A k \in 1 .. L : i + k - 1 \in 1 .. Len(text)
        BY <1>1, <1>7, <1>9
    <2>2. \A k \in 1 .. L : text[i + k - 1] = secret[k]
        BY <1>3, <1>8, <2>1
    <2>3. OccursAt(text, secret, i)
        BY <1>7, <1>9, <2>2, OccursIff
    <2> QED
        BY <1>1, <1>2, <1>6, <1>7, <2>3
<1>10. CASE i + L - 1 > Len(text)
    <2>1. i > boundary
        BY <1>1, <1>4, <1>7, <1>10
    <2>2. PICK j \in 1 .. Len(text) : OccursAt(text, secret, j) /\ n = j + L - 1
        BY <1>1, <1>2, <1>4, <1>6, <1>7, <2>1
    <2>3. j <= boundary /\ j < i
        BY <1>1, <1>2, <1>4, <1>7, <2>1, <2>2
    <2> DEFINE k == n - i + 1
               prefix == SubSeq(secret, 1, k)
               suffix == SubSeq(secret, L - k + 1, L)
    <2>4. k \in 1 .. L - 1
        BY <1>1, <1>2, <1>7, <2>2, <2>3
    <2>5. \A m \in 1 .. L : text[j + m - 1] = secret[m]
        BY <2>2, OccursIff
    <2>6. \A m \in 1 .. k : secret[m] = text[i + m - 1]
        <3> SUFFICES ASSUME NEW m \in 1 .. k PROVE secret[m] = text[i + m - 1]
            OBVIOUS
        <3>1. m \in 1 .. L /\ i + m - 1 \in 1 .. Len(text)
            BY <1>1, <1>2, <1>7, <2>4
        <3> QED
            BY <1>3, <1>8, <3>1
    <2>7. \A m \in 1 .. k : secret[L - k + m] = text[i + m - 1]
        <3> SUFFICES ASSUME NEW m \in 1 .. k
                     PROVE secret[L - k + m] = text[i + m - 1]
            OBVIOUS
        <3>1. L - k + m \in 1 .. L /\ j + (L - k + m) - 1 = i + m - 1
            BY <1>1, <1>2, <1>7, <2>2, <2>4
        <3> QED
            BY <2>5, <3>1
    <2> HIDE DEF k
    <2>8. /\ prefix \in Seq(B) /\ Len(prefix) = k
          /\ \A m \in 1 .. k : prefix[m] = secret[m]
        <3>1. k \in 0 .. Len(secret)
            BY <1>1, <2>4
        <3> QED
            BY <3>1, PartsOf
    <2>9. /\ suffix \in Seq(B) /\ Len(suffix) = k
          /\ \A m \in 1 .. k : suffix[m] = secret[L - k + m]
        <3>1. L - k \in 0 .. Len(secret) /\ Len(secret) - (L - k) = k
            BY <1>1, <2>4
        <3> QED
            BY <3>1, PartsOf, ZenonT(60)
    <2>10. prefix = suffix
        <3> HIDE DEF prefix, suffix
        <3>1. \A m \in 1 .. k : prefix[m] = suffix[m]
            BY <2>6, <2>7, <2>8, <2>9
        <3>2. prefix \in Seq(B) /\ suffix \in Seq(B) /\ Len(prefix) = Len(suffix)
            BY <2>8, <2>9
        <3>3. \A m \in 1 .. Len(prefix) : prefix[m] = suffix[m]
            BY <2>8, <3>1
        <3> QED
            BY <3>2, <3>3, SeqEqual
    <2> QED
        BY <2>4, <2>10 DEF Borderless
<1> QED
    BY <1>1, <1>7, <1>9, <1>10

(* The text is redacted as its first n symbols by themselves, and what is   *)
(* left of it with what follows.                                            *)
SplitsAt(text, rest, n, secret) ==
    Redact(text \o rest, secret)
      = Redact(SubSeq(text, 1, n), secret)
          \o Redact(SubSeq(text, n + 1, Len(text)) \o rest, secret)

(* What Write passes on is decided for good: whatever follows the text, the *)
(* whole is redacted as the part passed on by itself and the part held back *)
(* with what follows.  So a secret torn between two reads is still found.   *)
(* The secret must not overlap itself.                                      *)
THEOREM FlushedForGood ==
    ASSUME NEW B, NEW text \in Seq(B), NEW rest \in Seq(B),
           NEW secret \in Seq(B), Alphabet(B), Borderless(secret)
    PROVE  SplitsAt(text, rest, FlushLen(text, secret), secret)
<1> DEFINE n == FlushLen(text, secret)
           front == SubSeq(text, 1, n)
           back == SubSeq(text, n + 1, Len(text))
<1>1. n \in 0 .. Len(text)
    BY FlushLenType
<1>2. ~(secret # <<>>) \/ ~Straddles(text \o rest, secret, n)
    BY FlushNotStraddled
<1>3. secret = <<>> => n = Len(text)
    BY DEF FlushLen
<1> HIDE DEF n
<1>4. front \in Seq(B) /\ Len(front) = n /\ back \in Seq(B) /\ text = front \o back
    BY <1>1, PartsOf, ZenonT(60)
<1> HIDE DEF front, back
<1>5. text \o rest = front \o (back \o rest) /\ back \o rest \in Seq(B)
    <2>1. front \in Seq(B) /\ back \in Seq(B)
        BY <1>4
    <2>2. (front \o back) \o rest = front \o (back \o rest)
        <3>1. Regroups(front, back, rest)
            BY <2>1, ConcatRegroups
        <3> QED
            BY <3>1 DEF Regroups
    <2>3. back \o rest \in Seq(B)
        BY <2>1, ConcatProperties
    <2> QED
        BY <1>4, <2>2, <2>3
<1>6. Redact(text \o rest, secret) = Redact(front, secret) \o Redact(back \o rest, secret)
    <2>1. CASE secret = <<>>
        BY <1>5, <2>1 DEF Redact
    <2>2. CASE secret # <<>>
        <3>1. ~Straddles(front \o (back \o rest), secret, Len(front))
            BY <1>2, <1>4, <1>5, <2>2
        <3>2. PICK c \in Seq(B) : c = back \o rest
            BY <1>5
        <3>3. front \in Seq(B) /\ ~Straddles(front \o c, secret, Len(front))
            BY <1>4, <3>1, <3>2
        <3>4. Redact(front \o c, secret) = Redact(front, secret) \o Redact(c, secret)
            BY <2>2, <3>3, RedactConcat
        <3> QED
            BY <1>5, <3>2, <3>4
    <2> QED
        BY <2>1, <2>2
<1> QED
    BY <1>4, <1>6 DEF SplitsAt, front, back, n
=============================================================================
