------------------------------ MODULE Templates ------------------------------
(***************************************************************************)
(* The templates: how a tree of files becomes a repository                 *)
(* (internal/infrastructure/template/file_repository.go), which one a      *)
(* notification gets (internal/app/template/service.go), and what comes    *)
(* out when it is rendered (internal/domain/template/template.go).         *)
(*                                                                         *)
(* A text is a sequence of pieces: the delimiter, the end of a line, words *)
(* and actions of Go's template language, of which one prints the value    *)
(* that a request gives and one does not parse.  In a front matter the     *)
(* pieces "name", "subject" and "broken subject" are a line of that key.   *)
(***************************************************************************)
EXTENDS Notifications, FiniteSetsExt, Sequences

CONSTANTS
  FrontMatters, Bodies   \* what is said of the parser is said of these texts

NewLine   == "nl"
Delim     == "---"
Keys      == {"name", "subject", "broken subject"}
Placeholder == "{{.x}}"
Unparsed  == "{{"
Piece     == Keys \cup {Delim, NewLine, "word", Placeholder, Unparsed}

ASSUME TextAssumption ==
  FrontMatters \subseteq Seq(Piece) /\ Bodies \subseteq Seq(Piece)

\* The value that a request gives for x.
Values == {"text", "blank", "missing"}

(***************************************************************************)
(* splitFrontMatter                                                        *)
(***************************************************************************)
Opens(text) == Len(text) >= 2 /\ text[1] = Delim /\ text[2] = NewLine

\* The end of the block: the line break before the first closing delimiter.
Closings(text) ==
  {i \in 3 .. Len(text) - 1 : text[i] = NewLine /\ text[i + 1] = Delim}

Block(text) == SubSeq(text, 3, Min(Closings(text)) - 1)

KeyOf(piece) == IF piece = "broken subject" THEN "subject" ELSE piece

\* yaml.Unmarshal into frontMatter: each line is empty or a key of its own; the
\* first may start the document.
Unmarshals(block) ==
  \A i \in DOMAIN block : block[i] # NewLine =>
    /\ block[i] \in Keys \/ (block[i] = Delim /\ i = 1)
    /\ i > 1 => block[i - 1] = NewLine
    /\ \A j \in 1 .. i - 1 : KeyOf(block[j]) # KeyOf(block[i])

IsTemplateFile(text) ==
  Opens(text) => Closings(text) # {} /\ Unmarshals(Block(text))

\* Mutant: the rest of the delimiter's line stays in the body.
BodyAfterDelim(text) ==
  IF ~Opens(text) THEN text ELSE SubSeq(text, Min(Closings(text)) + 2, Len(text))

\* The text, or what follows the closing delimiter and one line break.
BodyOf(text) ==
  IF ~Opens(text) THEN text
  ELSE LET after == SubSeq(text, Min(Closings(text)) + 2, Len(text)) IN
         IF after # <<>> /\ after[1] = NewLine THEN Tail(after) ELSE after

Meta(text) == IF Opens(text) THEN Range(Block(text)) \cap Keys ELSE {}

\* No line of it but the first starts with a delimiter.
IsBlock(block) ==
  \A i \in 1 .. Len(block) - 1 : block[i] = NewLine => block[i + 1] # Delim

\* A block between two delimiters, and what follows the second one.
Opening(block) == <<Delim, NewLine>> \o block
WithFrontMatter(block, rest) == Opening(block) \o <<NewLine, Delim>> \o rest

\* The text is taken apart into the block and this body.
ReadsBack(block, rest, body) ==
  LET text == WithFrontMatter(block, rest) IN
    /\ IsTemplateFile(text) <=> Unmarshals(block)
    /\ BodyOf(text) = body
    /\ Meta(text) = Range(block) \cap Keys

\* What becomes of every text.  Either it has a block that is closed, by a line
\* of its own, by one that goes on, or by the end of the text; or its block is
\* not closed, not even by a delimiter in its first line; or it opens none.
AllReadBack ==
  /\ \A block \in FrontMatters : IsBlock(block) =>
       /\ \A body \in Bodies :
            /\ ReadsBack(block, <<NewLine>> \o body, body)
            /\ (body = <<>> \/ body[1] # NewLine) => ReadsBack(block, body, body)
       /\ ~IsTemplateFile(Opening(block))
  /\ \A text \in Bodies :
       ~Opens(text) => IsTemplateFile(text) /\ BodyOf(text) = text /\ Meta(text) = {}

(***************************************************************************)
(* NewFileRepository                                                       *)
(***************************************************************************)
Hidden == "."   \* a name that starts with a dot, or an entry of the other kind

\* A template file has the ID it is named for; a directory has a type's name.
File      == [id: TemplateId \cup {Hidden}, text: Seq(Piece)]
Directory == [name: Types \cup {Hidden, "unknown"}, files: Seq(File)]

Files(tree, type) ==
  UNION {{dir.files[i] : i \in DOMAIN dir.files} : dir \in {d \in tree : d.name = type}}

\* No error comes back.
Loads(tree) ==
  \A dir \in tree : dir.name # Hidden =>
    /\ dir.name \in Types
    /\ \A file \in Files(tree, dir.name) : file.id # Hidden => IsTemplateFile(file.text)

\* loadTemplateFile; the name falls back to the ID.
LoadTemplateFile(type, file) ==
  [id        |-> file.id,
   type      |-> type,
   name      |-> IF "name" \in Meta(file.text) THEN "name" ELSE file.id,
   subject   |-> Meta(file.text) \ {"name"},
   body      |-> BodyOf(file.text),
   isDefault |-> file.id = Default]

\* loadTypeDir: of two files with one ID, the last one read stays.
LoadTypeDir(dir) ==
  [id \in {dir.files[i].id : i \in DOMAIN dir.files} \ {Hidden} |->
     LoadTemplateFile(dir.name,
       dir.files[Max({i \in DOMAIN dir.files : dir.files[i].id = id})])]

NewFileRepository(tree) ==
  [type \in {dir.name : dir \in tree} \cap Types |->
     LoadTypeDir(CHOOSE dir \in tree : dir.name = type)]

(***************************************************************************)
(* Lookups                                                                 *)
(***************************************************************************)
\* The IDs that Get finds, by type.
Known(repo) ==
  [type \in Types |-> IF type \in DOMAIN repo THEN DOMAIN repo[type] ELSE {}]

\* Mutant: the type is left out of account.
ListAll(repo, type) == UNION {Range(repo[t]) : t \in DOMAIN repo}

\* Service.List with a type to filter by; their order is left out.
List(repo, type) ==
  {template \in UNION {Range(repo[t]) : t \in DOMAIN repo} : template.type = type}

(***************************************************************************)
(* Template.Render                                                         *)
(***************************************************************************)
Renders(template) ==
  "broken subject" \notin template.subject /\ Unparsed \notin Range(template.body)

\* A missing value is nothing in html/template, and "<no value>" in text/template.
RendersNothing(type, value) == value = "blank" \/ (value = "missing" /\ type = "email")

\* The rendered body is the empty string.
IsBlank(template, value) ==
  \A i \in DOMAIN template.body :
    template.body[i] = Placeholder /\ RendersNothing(template.type, value)

=============================================================================
