---------------------------- MODULE MCProcessing ----------------------------
(***************************************************************************)
(* Instances of Processing for TLC, with the texts for the parsers.        *)
(***************************************************************************)
EXTENDS Processing, TLC

CONSTANTS api, w1, w2, m1, m2, default, welcome

(***************************************************************************)
(* Templates                                                               *)
(***************************************************************************)
\* Texts as the repository's configs/templates has them, with and without front
\* matter; a body that does not parse; a block that is not closed.
Plain    == <<Placeholder>>
Titled   == <<Delim, NewLine, "name", NewLine, "subject", NewLine, Delim, NewLine, Placeholder, NewLine>>
Broken   == <<"word", Unparsed>>
Unclosed == <<Delim, NewLine, "subject", NewLine, "word">>

FileOf(id, text) == [id |-> id, text |-> text]
Dir(name, files) == [name |-> name, files |-> files]

\* The e-mail template is broken, then fixed by a second file of its ID, while
\* the short message gets one more; the third tree does not load.
First  == {Dir("email", <<FileOf(default, Titled), FileOf(welcome, Broken)>>),
           Dir("sms", <<FileOf(default, Plain), FileOf(Hidden, Unclosed)>>),
           Dir(Hidden, <<>>)}
Second == {Dir("email", <<FileOf(default, Plain), FileOf(welcome, Broken), FileOf(welcome, Titled)>>),
           Dir("sms", <<FileOf(default, Plain), FileOf(welcome, Titled)>>),
           Dir("push", <<FileOf(welcome, Plain)>>)}
Third  == {Dir("email", <<FileOf(default, Unclosed)>>)}

ThreeReleases == <<First, Second, Third>>

\* The one that does not load is there first.
FixedRollout == <<Third, First, Second>>

(***************************************************************************)
(* Requests                                                                *)
(***************************************************************************)
Addressed(email, phone) ==
  [t \in Types |-> CASE t = "email" -> email [] t = "sms" -> phone [] t = "push" -> <<>>]

Mail     == <<"atom", "@", "atom", ".", "atom">>
HostMail == <<"atom", "@", "atom">>
Phone    == <<"+", "wide">>

AskFor(type, priority, recipient, template, value) ==
  [type |-> type, priority |-> priority, recipient |-> recipient,
   template |-> template, value |-> value]

ToWelcome   == AskFor("email", "transactional", Addressed(Mail, <<>>), welcome, "text")
ToDefault   == AskFor("email", Unset, Addressed(Mail, <<>>), Unset, "missing")
ToHost      == AskFor("email", Unset, Addressed(HostMail, <<>>), Unset, "text")
BlankShort  == AskFor("sms", "transactional", Addressed(<<>>, Phone), default, "blank")
NewShort    == AskFor("sms", "transactional", Addressed(<<>>, Phone), welcome, "text")

AsksOf == (m1 :> {ToWelcome, ToHost, NewShort}) @@ (m2 :> {ToDefault, BlankShort})

(***************************************************************************)
(* Environments                                                            *)
(***************************************************************************)
EnvOf(type, rate, attempts) ==
  [type |-> type, priority |-> "transactional", prefetch |-> Unset,
   maxRetries |-> attempts, rateLimit |-> rate]

\* One worker sends once a second; the other's rate is zero.
TwoEnvs == (w1 :> EnvOf("email", 1, 1)) @@ (w2 :> EnvOf("sms", 0, Unset))
StartsOf == (w1 :> 2) @@ (w2 :> 1)

\* The first worker by itself, with a notification that needs the fix.
WelcomeOnly == m1 :> {ToWelcome}
OneEnv      == w1 :> EnvOf("email", 1, 1)
OneStart    == w1 :> 1

(***************************************************************************)
(* The texts for the parsers.                                              *)
(***************************************************************************)
Texts(pieces, n) == UNION {[1 .. k -> pieces] : k \in 0 .. n}

ShortBlocks == Texts({NewLine, Delim, "name", "subject", "word"}, 4)
ShortBodies == Texts({NewLine, Delim, "word"}, 4)

ShortNumbers == Texts({"+", "digit", "wide", "format"}, 6)
ShortEmails  == Texts(EmailChar, 5) \cup Texts({"atom", "@", ".", "<", ">"}, 7)

=============================================================================
