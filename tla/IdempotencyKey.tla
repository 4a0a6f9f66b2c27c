---------------------------- MODULE IdempotencyKey ----------------------------
(***************************************************************************)
(* idempotency.py: a key is built from the caller's own identifiers, which *)
(* are normalised first, so different identifiers may make the same key.   *)
(***************************************************************************)
EXTENDS Text

MaxKeyLength == 255

(* _UNSAFE_SEGMENT_CHARS.sub("-", s): a whole run of unsafe characters     *)
(* becomes one dash, a dash that was there stays.  By prefixes of s.       *)
Dashes(s) ==
    LET text[i \in 0 .. Len(s)] ==
            IF i = 0 THEN <<>>
            ELSE IF s[i] \in Safe THEN Append(text[i - 1], s[i])
            ELSE IF i = 1 \/ s[i - 1] \in Safe THEN Append(text[i - 1], "-")
            ELSE text[i - 1]
    IN  text

Dashed(s) == Dashes(s)[Len(s)]

(* _normalize_part *)
Normalized(part) == Strip(Dashed(Lower(Strip(part, Spaces))), {"-"})

(* "-".join(part for part in normalized if part), by numbers of parts      *)
Linked(key, part) ==
    IF key = <<>> THEN part ELSE IF part = <<>> THEN key ELSE key \o <<"-">> \o part

Joins(parts) ==
    LET key[i \in 0 .. Len(parts)] ==
            IF i = 0 THEN <<>> ELSE Linked(key[i - 1], Normalized(parts[i]))
    IN  key

Joined(parts) == Joins(parts)[Len(parts)]

(* validate_idempotency_key raises nothing *)
ValidKey(key) ==
    /\ key # <<>>
    /\ Length(key) <= MaxKeyLength
    /\ Range(key) \subseteq Safe
===============================================================================
