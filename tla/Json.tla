-------------------------------- MODULE Json --------------------------------
(***************************************************************************)
(* api/Json.hpp: how the handlers read a request body.  There is no        *)
(* parser: a key is the first place where it stands between quotes, its    *)
(* value is what follows the next colon.                                   *)
(*                                                                         *)
(* A body is a sequence of fields and is read as its tokens.  Texts have   *)
(* no quotes, colons or backslashes in them; a value without quotes ends   *)
(* at a comma, a brace or a space.                                         *)
(***************************************************************************)
EXTENDS Integers, Sequences

CONSTANTS
  FieldNames,
  Texts,     \* what values are, between quotes or bare
  Numerals   \* [text -> the number std::stoi and std::stod read at its start]

VARIABLE body  \* what a client is about to send

Quoted(text) == [kind |-> "quoted", text |-> text]
Bare(text)   == [kind |-> "bare", text |-> text]
Mark(text)   == [kind |-> "mark", text |-> text]

FieldValues == {Quoted(t) : t \in Texts} \cup {Bare(t) : t \in Texts}

TokensOf(fields) ==
  [n \in 1 .. 4 * Len(fields) |->
     LET field == fields[(n + 3) \div 4]
     IN  <<Quoted(field.key), Mark(":"), field.value, Mark(",")>>[((n - 1) % 4) + 1]]

After(tokens, i) == SubSeq(tokens, i + 1, Len(tokens))

Places(tokens, token) == {i \in DOMAIN tokens : tokens[i] = token}

(* The first place of a token, or 0.                                       *)
Find(tokens, token) ==
  IF Places(tokens, token) = {} THEN 0
  ELSE CHOOSE i \in Places(tokens, token) : \A j \in Places(tokens, token) : i <= j

(* Mutant: the colon is taken to be right behind the key.                  *)
ExtractNextButOne(tokens, key) ==
  LET rest == After(tokens, Find(tokens, Quoted(key)))
  IN  IF Find(tokens, Quoted(key)) = 0 \/ Len(rest) < 2 THEN "" ELSE rest[2].text

ExtractString(tokens, key) ==
  LET rest  == After(tokens, Find(tokens, Quoted(key)))
      value == After(rest, Find(rest, Mark(":")))
  IN  IF Find(tokens, Quoted(key)) = 0 \/ Find(rest, Mark(":")) = 0 \/ value = <<>> THEN ""
      ELSE Head(value).text

(* extractInt and extractDouble: an exception of stoi or stod is caught.   *)
ExtractNumber(tokens, key, defaultVal) ==
  LET text == ExtractString(tokens, key)
  IN  IF text \in DOMAIN Numerals THEN Numerals[text] ELSE defaultVal

-----------------------------------------------------------------------------
(* Bodies of distinct fields.                                              *)

BodyInit == body = <<>>

AddField(key, value) ==
  /\ \A i \in DOMAIN body : body[i].key # key
  /\ body' = Append(body, [key |-> key, value |-> value])

BodyNext == \E key \in FieldNames, value \in FieldValues : AddField(key, value)

BodySpec == BodyInit /\ [][BodyNext]_body

-----------------------------------------------------------------------------
(* Properties.                                                             *)

(* "Robust key-value extractor": a field is read as it was written, in     *)
(* whatever order the fields are, also when a later value, or the one just *)
(* before it, is the very name of its key; from the third field on, an     *)
(* earlier value of that name hides it.  A body that breaks off between    *)
(* two tokens gives each of them as it was written or not at all, and a    *)
(* number that is not there or no number is the default.                   *)
BodiesAreRead ==
  LET tokens == TokensOf(body)
  IN  \A i \in DOMAIN body :
        LET key   == body[i].key
            value == body[i].value.text
        IN  (\A j \in 1 .. i - 2 : body[j].value # Quoted(key)) =>
              /\ ExtractString(tokens, key) = value
              /\ ExtractNumber(tokens, key, -1)
                   = IF value \in DOMAIN Numerals THEN Numerals[value] ELSE -1
              /\ \A n \in 0 .. Len(tokens) :
                   ExtractString(SubSeq(tokens, 1, n), key) \in {value, ""}
=============================================================================
