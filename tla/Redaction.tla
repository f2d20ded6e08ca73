------------------------------- MODULE Redaction -------------------------------
(***************************************************************************)
(* The text functions of internal/backend/windmill: redact, which replaces  *)
(* a private ID in a whole text, and the arithmetic of redactingWriter,     *)
(* which decides how much of a stream can be passed on before the rest of   *)
(* it is known.  A text is a sequence of bytes, or of classes of bytes.     *)
(***************************************************************************)
LOCAL INSTANCE Integers
LOCAL INSTANCE Sequences

CONSTANT Redacted   \* "[backend-id-redacted]", one symbol

(* secret stands in text at position i.                                     *)
OccursAt(text, secret, i) ==
    /\ i + Len(secret) - 1 <= Len(text)
    /\ SubSeq(text, i, i + Len(secret) - 1) = secret

(* strings.ReplaceAll: occurrences from the left that do not overlap.       *)
Redact(text, secret) ==
    LET from[i \in 1 .. Len(text) + 1] ==
            IF i > Len(text) THEN <<>>
            ELSE IF OccursAt(text, secret, i)
                 THEN <<Redacted>> \o from[i + Len(secret)]
                 ELSE <<text[i]>> \o from[i + 1]
    IN  IF secret = <<>> THEN text ELSE from[1]

(* The whole text without any of the secrets, in their order.               *)
RedactMany(text, secrets) ==
    LET after[i \in 0 .. Len(secrets)] ==
            IF i = 0 THEN text ELSE Redact(after[i - 1], secrets[i])
    IN  after[Len(secrets)]

(* Mutation: an occurrence that straddles the boundary is not looked for.   *)
FlushBoundary(pending, secret) ==
    IF Len(pending) < Len(secret) THEN 0 ELSE Len(pending) - Len(secret) + 1

(* How many of the pending bytes Write passes on: all but the longest tail  *)
(* that could be the beginning of the secret, moved past any occurrence     *)
(* the boundary falls into, and past those it then falls into.  flush[i] is *)
(* where it stands when the positions before i have been looked at.         *)
FlushLen(pending, secret) ==
    LET boundary == Len(pending) - (Len(secret) - 1)
        first == IF boundary < Len(secret) THEN 1 ELSE boundary - Len(secret) + 2
        flush[i \in first .. Len(pending) + 1] ==
            IF i = first THEN boundary
            ELSE IF i - 1 <= flush[i - 1] /\ OccursAt(pending, secret, i - 1)
                 THEN i - 1 + Len(secret) - 1
                 ELSE flush[i - 1]
    IN  IF secret = <<>> THEN Len(pending)
        ELSE IF boundary <= 0 THEN 0
        ELSE flush[Len(pending) + 1]

(* Nothing is a proper prefix and a proper suffix of the word: two          *)
(* occurrences of it cannot overlap.                                        *)
Borderless(word) ==
    \A k \in 1 .. Len(word) - 1 :
        SubSeq(word, 1, k) # SubSeq(word, Len(word) - k + 1, Len(word))
=============================================================================
