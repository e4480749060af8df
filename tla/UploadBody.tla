------------------------------ MODULE UploadBody ------------------------------
(***************************************************************************)
(* Reading the multipart body of an upload (upload.rs and the field loop   *)
(* of `upload` in app.rs).  The network cuts a field into chunks anywhere; *)
(* a file field is written to a temporary file chunk by chunk, decoded on  *)
(* the way if it is sent as base64.                                        *)
(***************************************************************************)
EXTENDS Naturals, Sequences, FiniteSets

CONSTANTS
  Limits,   \* values of max_upload_bytes
  MaxInput, \* bound: characters of a file field
  MaxFields \* bound: fields of a body

ASSUME UploadBodyAssumption ==
  /\ Limits \subseteq Nat \ {0}
  /\ MaxInput \in Nat
  /\ MaxFields \in Nat

\* Characters: one of the base64 alphabet with no bits set, one with all bits
\* set, padding, one outside the alphabet, and white space.
Alphabet == {"A", "/"}
Characters == Alphabet \cup {"=", "!", "space"}
FieldNames == {"file", "sha256", "other"}

\* What a sha256 field may hold: 64 hexadecimal digits, other text, bytes that
\* are not UTF-8, or more than 256 bytes.
Checksums == {"digest", "text", "binary", "long"}

VARIABLES
  limit,        \* max_upload_bytes
  stage,        \* "fields", "file", or how the reading ended
  encoding,     \* how the file field is sent: "none" yet, "base64" or "plain"
  fields,       \* names of the fields read so far
  archive,      \* the temporary file of the file field is complete
  checksum,     \* "none", or what the sha256 field holds
  input,        \* characters of the file field received so far
  pending,      \* characters of an unfinished quartet
  encoded_size, decoded_size, saw_padding,
  chunk,        \* what this chunk contributes to the file
  output        \* the temporary file

reader == <<encoding, pending, encoded_size, decoded_size, saw_padding>>
vars == <<limit, stage, fields, archive, checksum, input, reader, chunk, output>>

Init ==
  /\ limit \in Limits
  /\ stage = "fields"
  /\ encoding = "none"
  /\ fields = <<>>
  /\ archive = FALSE
  /\ checksum = "none"
  /\ input = <<>>
  /\ pending = <<>>
  /\ encoded_size = 0
  /\ decoded_size = 0
  /\ saw_padding = FALSE
  /\ chunk = <<>>
  /\ output = <<>>

\* Early returns: "413" (TooLarge), "400" (Invalid), "unwritable" (Invalid as
\* well and answered 400, but for the temporary file's sake) and "broken" (the
\* connection or the multipart framing failed).
Fail(status) ==
  /\ stage' = status
  /\ UNCHANGED <<limit, archive, checksum, output>>

-----------------------------------------------------------------------------
(* write_multipart_file                                                    *)

\* What the base64 engine makes of four characters: the number of bytes, or 0
\* if it refuses them.  Padding is at the end and the bits it cuts off are 0.
DecodedLen(q) ==
  CASE \A i \in 1 .. 4 : q[i] \in Alphabet -> 3
    [] q[1] \in Alphabet /\ q[2] \in Alphabet /\ q[3] = "A" /\ q[4] = "=" -> 2
    [] q[1] \in Alphabet /\ q[2] = "A" /\ q[3] = "=" /\ q[4] = "=" -> 1
    [] OTHER -> 0

\* The bytes themselves: the i-th of those that a quartet stands for.
Decode(q) == [i \in 1 .. DecodedLen(q) |-> <<q, i>>]

\* Mutation: the last incomplete group of three bytes has no room.
RoundedDown == (limit \div 3) * 4

encoded_limit == ((limit + 2) \div 3) * 4

\* Mutation: what follows padding is decoded as well.
RefusalAfterPadding(q) ==
  IF encoded_size >= encoded_limit THEN "413"
  ELSE IF Len(q) # 4 THEN "none"
  ELSE IF DecodedLen(q) = 0 THEN "400"
  ELSE IF decoded_size + DecodedLen(q) > limit THEN "413"
  ELSE "none"

\* Mutation: only the encoded size is limited.
RefusalUnlimited(q) ==
  IF saw_padding THEN "400"
  ELSE IF encoded_size >= encoded_limit THEN "413"
  ELSE IF Len(q) = 4 /\ DecodedLen(q) = 0 THEN "400"
  ELSE "none"

\* What refuses a character that makes the pending ones q, in the code's order.
Refusal(q) ==
  IF saw_padding THEN "400"
  ELSE IF encoded_size >= encoded_limit THEN "413"
  ELSE IF Len(q) # 4 THEN "none"
  ELSE IF DecodedLen(q) = 0 THEN "400"
  ELSE IF decoded_size + DecodedLen(q) > limit THEN "413"
  ELSE "none"

\* An accepted character is put aside until its quartet is complete.
Push(q) ==
  /\ encoded_size' = encoded_size + 1
  /\ IF Len(q) # 4
     THEN pending' = q /\ UNCHANGED <<saw_padding, decoded_size, chunk>>
     ELSE /\ pending' = <<>>
          /\ saw_padding' = \E i \in 1 .. 4 : q[i] = "="
          /\ decoded_size' = decoded_size + DecodedLen(q)
          /\ chunk' = chunk \o Decode(q)
  /\ UNCHANGED <<limit, stage, archive, checksum, encoding, output>>

\* The next character of a base64 field.  White space is skipped.
Base64Character(c) ==
  LET q == Append(pending, c) IN
  /\ stage = "file" /\ encoding = "base64"
  /\ Len(input) < MaxInput
  /\ input' = Append(input, c)
  /\ UNCHANGED fields
  /\ \/ /\ c = "space"
        /\ UNCHANGED <<limit, stage, archive, checksum, reader, chunk, output>>
     \/ /\ c # "space"
        /\ Refusal(q) = "none"
        /\ Push(q)
     \/ /\ c # "space"
        /\ Refusal(q) # "none"
        /\ Fail(Refusal(q))
        /\ UNCHANGED <<reader, chunk>>

\* The next byte of a file sent as it is.
PlainByte(c) ==
  /\ stage = "file" /\ encoding = "plain"
  /\ Len(input) < MaxInput
  /\ input' = Append(input, c)
  /\ chunk' = Append(chunk, c)
  /\ UNCHANGED <<limit, stage, fields, archive, checksum, reader, output>>

\* The chunk ends: it is appended to the file, if that can be written and, for
\* a plain file, if it still fits.
EndChunk ==
  /\ stage = "file"
  /\ chunk # <<>>
  /\ UNCHANGED <<fields, input, reader>>
  /\ \/ /\ encoding = "plain" => Len(output) + Len(chunk) <= limit
        /\ output' = output \o chunk
        /\ chunk' = <<>>
        /\ UNCHANGED <<limit, stage, archive, checksum>>
     \/ /\ encoding = "plain" /\ Len(output) + Len(chunk) > limit
        /\ Fail("413")
        /\ UNCHANGED chunk

\* The temporary file cannot be made, written or synced, or the client or its
\* framing fails.
ReadFails ==
  /\ stage = "file"
  /\ Fail("unwritable") \/ Fail("broken")
  /\ UNCHANGED <<fields, input, reader, chunk>>

\* The field ends; the file is flushed and synced.
EndFile ==
  /\ stage = "file"
  /\ chunk = <<>>
  /\ UNCHANGED <<limit, fields, checksum, input, reader, chunk, output>>
  /\ \/ /\ pending = <<>>
        /\ stage' = "fields"
        /\ archive' = TRUE
     \/ /\ pending # <<>>
        /\ stage' = "400"
        /\ UNCHANGED archive

-----------------------------------------------------------------------------
(* The field loop of `upload`                                              *)

Field(name) ==
  /\ stage = "fields"
  /\ Len(fields) < MaxFields
  /\ fields' = Append(fields, name)
  /\ UNCHANGED <<limit, archive, output, chunk, input, pending, encoded_size,
                 decoded_size, saw_padding>>

\* Mutation: a second file field is read like the first.
AnyFileField(e) ==
  /\ stage = "fields" /\ Len(fields) < MaxFields
  /\ fields' = Append(fields, "file")
  /\ stage' = "file" /\ encoding' = e /\ archive' = FALSE
  /\ input' = <<>> /\ output' = <<>> /\ chunk' = <<>> /\ pending' = <<>>
  /\ encoded_size' = 0 /\ decoded_size' = 0 /\ saw_padding' = FALSE
  /\ UNCHANGED <<limit, checksum>>

FileField(e) ==
  /\ ~archive
  /\ Field("file")
  /\ stage' = "file"
  /\ encoding' = e
  /\ UNCHANGED checksum

\* A field that is not UTF-8 counts as not there.
ChecksumField(value) ==
  /\ checksum = "none"
  /\ Field("sha256")
  /\ stage' = IF value = "long" THEN "413" ELSE stage
  /\ UNCHANGED encoding
  /\ checksum' = IF value \in {"long", "binary"} THEN "none" ELSE value

OtherField(name) ==
  /\ name = "file" => archive
  /\ name = "sha256" => checksum # "none"
  /\ Field(name)
  /\ stage' = "400"
  /\ UNCHANGED <<checksum, encoding>>

\* The body ends: both fields are needed.
EndBody ==
  /\ stage = "fields"
  /\ stage' = IF archive /\ checksum = "digest" THEN "read" ELSE "400"
  /\ UNCHANGED <<limit, fields, archive, checksum, input, reader, chunk, output>>

Next ==
  \/ \E c \in Characters : Base64Character(c)
  \/ \E c \in Alphabet : PlainByte(c)
  \/ EndChunk \/ ReadFails \/ EndFile
  \/ \E e \in {"base64", "plain"} : FileField(e)
  \/ \E value \in Checksums : ChecksumField(value)
  \/ \E name \in FieldNames : OtherField(name)
  \/ EndBody

Spec == Init /\ [][Next]_vars

-----------------------------------------------------------------------------
(* What a field means, whole and without chunks                            *)

\* The characters that count: the k-th is the one with k of them up to it.
Dense(s) ==
  LET places == {i \in DOMAIN s : s[i] # "space"} IN
  [k \in 1 .. Cardinality(places) |->
     s[CHOOSE p \in places : Cardinality({i \in places : i <= p}) = k]]

\* What the field holds: white space means nothing in base64.
Text == IF encoding = "plain" THEN input ELSE Dense(input)

QuartetOf(d, k) == SubSeq(d, 4 * k - 3, 4 * k)
DecodedTotal(d) ==
  IF d = <<>> THEN 0
  ELSE 3 * (Len(d) \div 4 - 1) + DecodedLen(QuartetOf(d, Len(d) \div 4))

\* A text that stands for a file within the limit.
Acceptable(d) ==
  IF encoding = "plain" THEN Len(d) <= limit
  ELSE /\ Len(d) % 4 = 0
       /\ \A k \in 1 .. Len(d) \div 4 :
            DecodedLen(QuartetOf(d, k)) \in IF 4 * k = Len(d) THEN 1 .. 3 ELSE {3}
       /\ DecodedTotal(d) <= limit

\* The file it stands for.
Content(d) ==
  IF encoding = "plain" THEN d
  ELSE [p \in 1 .. DecodedTotal(d) |->
          <<QuartetOf(d, (p - 1) \div 3 + 1), 1 + ((p - 1) % 3)>>]

\* However the field was cut into chunks, a file that was read to its end is
\* exactly what the whole field stands for.
FileIsContent == archive => Acceptable(Text) /\ output = Content(Text)

\* A file field is given up early only if no continuation of it could have been
\* accepted, and at its end, when no character is left that was not taken, only
\* if it is not acceptable.  A 400 for a temporary file that cannot be written,
\* which the client cannot tell from this one, is not meant.
GivenUpRightly ==
  stage \in {"400", "413"} /\ ~archive /\ fields # <<>>
    /\ fields[Len(fields)] = "file" =>
    LET text == Text IN
    IF encoding = "base64" /\ Len(text) = encoded_size THEN ~Acceptable(text)
    ELSE \A more \in UNION {[1 .. n -> Characters \ {"space"}] : n \in 0 .. 3} :
           ~Acceptable(text \o more)

\* The temporary file never exceeds the limit, whatever is sent, and neither
\* does what is decoded and not yet written.
FileBounded ==
  /\ Len(output) <= limit
  /\ encoding = "base64" => Len(output) + Len(chunk) <= limit

\* A body that is handed on has exactly one file field and a well-formed
\* checksum, whatever the order of its fields.
OneFileOneChecksum ==
  stage = "read" =>
    /\ checksum = "digest"
    /\ \E i \in DOMAIN fields : \A j \in DOMAIN fields :
         fields[j] = "file" <=> i = j
=============================================================================
