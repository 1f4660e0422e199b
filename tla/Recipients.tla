----------------------------- MODULE Recipients -----------------------------
(***************************************************************************)
(* The addresses of the three channels (internal/domain/provider/): which  *)
(* ones NewEmailAddress, NewPhoneNumber and NewDeviceToken accept.         *)
(*                                                                         *)
(* An address is the sequence of the kinds of its characters.              *)
(***************************************************************************)
EXTENDS Integers, Sequences, FiniteSets

CONSTANTS
  MinPhoneDigits, MaxPhoneDigits,
  MinDeviceTokenLength,
  PhoneTexts, EmailTexts   \* what is said of the parsers is said of these texts

ASSUME RecipientAssumption ==
  MinPhoneDigits \in Nat /\ MaxPhoneDigits \in Nat /\ MinDeviceTokenLength \in Nat

(***************************************************************************)
(* Phone numbers: "+", an ASCII "digit", a digit outside ASCII, which is   *)
(* two bytes "wide", the formatting that is skipped, anything else.        *)
(***************************************************************************)
PhoneChar == {"+", "digit", "wide", "format", "other"}

ASSUME PhoneAssumption == PhoneTexts \subseteq Seq(PhoneChar)

\* normalizePhoneNumber: what its builder holds after the last character.
Normalized(number) ==
  LET built[i \in 0 .. Len(number)] ==
        IF i = 0 THEN <<>>
        ELSE IF number[i] = "format" THEN built[i - 1] ELSE Append(built[i - 1], number[i])
  IN built[Len(number)]

\* Mutant: the length is taken with the plus sign.
BytesWithPlus(digits) ==
  1 + Len(digits) + Cardinality({i \in DOMAIN digits : digits[i] = "wide"})

\* len of the digits, in bytes.
Bytes(digits) == Len(digits) + Cardinality({i \in DOMAIN digits : digits[i] = "wide"})

\* normalizeAndValidatePhoneNumber.
IsPhoneNumber(number) ==
  LET normalized == Normalized(number) IN
    /\ normalized # <<>>
    /\ Head(normalized) = "+"
    /\ \A i \in 2 .. Len(normalized) : normalized[i] \in {"digit", "wide"}
    /\ Bytes(Tail(normalized)) \in MinPhoneDigits .. MaxPhoneDigits

\* The characters that are more than formatting.
Written(number) == {i \in DOMAIN number : number[i] # "format"}

\* A plus sign and, behind it, as many ASCII digits as E.164 allows.
IsE164(number) ==
  /\ \E plus \in Written(number) :
       /\ number[plus] = "+"
       /\ \A i \in Written(number) \ {plus} : plus < i /\ number[i] = "digit"
  /\ Cardinality(Written(number)) - 1 \in MinPhoneDigits .. MaxPhoneDigits

\* With ASCII digits, and formatting anywhere, these numbers and no others; other
\* digits never make a number too long.
AcceptsE164 ==
  \A number \in PhoneTexts :
    /\ (\A i \in DOMAIN number : number[i] # "wide") =>
         (IsPhoneNumber(number) <=> IsE164(number))
    /\ IsPhoneNumber(number) => Cardinality(Written(number)) <= 1 + MaxPhoneDigits

(***************************************************************************)
(* E-mail addresses: an "atom", a quoted string that is empty or holds an  *)
(* at sign, and the characters the validation looks for.                   *)
(***************************************************************************)
EmailChar == {"atom", "empty", "quoted", "@", ".", " ", "<", ">"}

ASSUME EmailAssumption == EmailTexts \subseteq Seq(EmailChar)

\* Words joined by single dots.
IsDotted(text, words) ==
  /\ Len(text) % 2 = 1
  /\ \A i \in DOMAIN text : IF i % 2 = 1 THEN text[i] \in words ELSE text[i] = "."

\* The addr-spec of RFC 5322, as far as these characters go.
IsAddrSpec(text) ==
  \E sign \in DOMAIN text :
    /\ text[sign] = "@"
    /\ \/ IsDotted(SubSeq(text, 1, sign - 1), {"atom"})
       \/ sign = 2 /\ text[1] \in {"empty", "quoted"}
    /\ IsDotted(SubSeq(text, sign + 1, Len(text)), {"atom"})

\* net/mail.ParseAddress: what the text may be the writing of, an address by
\* itself or in angle brackets after a display name.
Parsed(text) ==
  {spec \in {text} \cup
      {SubSeq(text, i + 1, Len(text) - 1) : i \in {j \in DOMAIN text :
         /\ text[j] = "<" /\ text[Len(text)] = ">"
         /\ \A k \in 1 .. j - 1 : text[k] \in {"atom", "empty", "quoted", "."}
         /\ j > 1 => text[1] # "."}} : IsAddrSpec(spec)}

\* The at signs of the address that ParseAddress returns, with the quotes gone.
AtSigns(spec) == Cardinality({i \in DOMAIN spec : spec[i] \in {"@", "quoted"}})

\* Mutant: the domain may be a bare host name.
HasAnyDomain(spec) == TRUE

\* The domain has a dot, and does not end with one.
HasTopLevelDomain(spec) ==
  \E sign \in DOMAIN spec :
    /\ spec[sign] = "@"
    /\ \E dot \in sign + 1 .. Len(spec) : spec[dot] = "."
    /\ spec[Len(spec)] # "."

\* validateEmail.
IsEmailAddress(text) ==
  /\ \A i \in DOMAIN text : text[i] # " "
  /\ \E spec \in Parsed(text) :
       AtSigns(spec) = 1 /\ spec[1] # "empty" /\ HasTopLevelDomain(spec)

\* Behind its last at sign, which follows a local part, are two words joined by
\* a dot.
HasDomain(text) ==
  \E sign \in 2 .. Len(text) :
    /\ text[sign] = "@" /\ text[sign - 1] \notin {"@", ".", "<"}
    /\ \A i \in sign + 1 .. Len(text) : text[i] # "@"
    /\ \E dot \in sign + 2 .. Len(text) - 1 :
         text[dot - 1] = "atom" /\ text[dot] = "." /\ text[dot + 1] = "atom"

\* Words joined by dots, an at sign, and two words or more joined by dots.
IsPlain(text) ==
  \E sign \in 2 .. Len(text) - 3 :
    /\ text[sign] = "@"
    /\ IsDotted(SubSeq(text, 1, sign - 1), {"atom"})
    /\ IsDotted(SubSeq(text, sign + 1, Len(text)), {"atom"})

\* Every accepted text has a local part and, behind its last at sign, a domain of
\* two words or more; and every plain address is accepted.
AcceptsAddresses ==
  \A text \in EmailTexts :
    /\ IsEmailAddress(text) => HasDomain(text)
    /\ IsPlain(text) => IsEmailAddress(text)

(***************************************************************************)
(* Device tokens: any character, or white space.                           *)
(***************************************************************************)
TokenChar == {"char", "space"}

\* strings.TrimSpace.
Trimmed(text) ==
  LET chars == {i \in DOMAIN text : text[i] # "space"} IN
    IF chars = {} THEN <<>>
    ELSE SubSeq(text, CHOOSE i \in chars : \A j \in chars : i <= j,
                      CHOOSE i \in chars : \A j \in chars : i >= j)

\* validateDeviceToken.
IsDeviceToken(text) ==
  Trimmed(text) # <<>> /\ Len(Trimmed(text)) >= MinDeviceTokenLength

\* NewEmailAddress, NewPhoneNumber or NewDeviceToken succeeds.
IsAddress(type, text) ==
  CASE type = "email" -> IsEmailAddress(text)
    [] type = "sms"   -> IsPhoneNumber(text)
    [] type = "push"  -> IsDeviceToken(text)

=============================================================================
