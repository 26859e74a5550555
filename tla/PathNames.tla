----------------------------- MODULE PathNames -----------------------------
(***************************************************************************)
(* What the server makes of the texts its clients send: folder names and   *)
(* paths (auxil.cpp, and the prologues of the handlers in wssSession.cpp)  *)
(* and the form bodies of registration and login (auxil.hpp).              *)
(*                                                                         *)
(* A text is a sequence of characters, typed one by one.  The store keeps  *)
(* what handle_add_file makes of the name of a folder; every query makes   *)
(* its own text of the same name and compares it with what is stored.      *)
(***************************************************************************)
EXTENDS Integers, Sequences, FiniteSets, Functions, SequencesExt

CONSTANTS
    Users,          \* the text "USERS"
    Id,             \* the text of the id of the user
    Banned,         \* control characters and symbols that sanitize erases
    Upper,          \* toupper, on the letters that have an upper case
    Reserved,       \* the names of devices and the like, in upper case
    MaxSegment,     \* the 255 bytes of the longest name
    Code,           \* the characters of a form and their codes
    Plain,          \* the characters a browser sends as they are
    Signs,          \* the characters a regular expression takes for signs of
                    \* its own, besides the dot and the parentheses
    Special(_, _),  \* what text a pattern with such signs matches
    PathChars,      \* the characters a path is typed from
    FormChars,      \* the characters a form field is typed from
    MaxPath,        \* how many characters are typed of a path ...
    MaxField        \* ... and of a form field

ASSUME PathNamesAssumption ==
    /\ MaxSegment \in Nat \ {0} /\ MaxPath \in Nat /\ MaxField \in Nat
    /\ FormChars \subseteq DOMAIN Code /\ IsInjective(Code) /\ Range(Code) \subseteq 0 .. 255
    /\ Plain \cap {" ", "%", "+", "&", "="} = {}
    /\ Users \in Seq(Range(Users)) /\ Id \in Seq(Range(Id))
    /\ Users # <<>> /\ Id # <<>>
    /\ (Range(Users) \cup Range(Id)) \cap ({"/", "\\", "(", ")"} \cup Signs) = {}
    /\ {"\\", "[", "]", "{", "}", "^", "$", "|", "+", "*", "?"} \subseteq Signs
    /\ Signs \cap {"/", ".", "(", ")"} = {}

VARIABLES
    kind,     \* whether a path or a form field is typed
    start,    \* what the client has in front of a path already
    text      \* what is typed after that

vars == <<kind, start, text>>

Slash == <<"/">>
Base == Users \o Slash \o Id
EndsIn(s, c) == s # <<>> /\ Last(s) = c
-----------------------------------------------------------------------------
(* sanitize.  Deviation: the end is trimmed before characters are erased.  *)
NextErased(erased, c) == IF c \in Banned THEN erased ELSE Append(erased, c)
Erased(s) == FoldLeft(NextErased, <<>>, s)
Trimmed(s) == SubSeq(s, 1, SelectLastInSeq(s, LAMBDA c : c \notin {" ", "."}))
InUpper(s) == [i \in DOMAIN s |-> IF s[i] \in DOMAIN Upper THEN Upper[s[i]] ELSE s[i]]
Unreserved(s) == IF InUpper(s) \in Reserved THEN <<>> ELSE s
Truncated(s) == SubSeq(s, 1, IF Len(s) > MaxSegment THEN MaxSegment ELSE Len(s))
sanitize_TrimsFirst(s) == Truncated(Unreserved(Erased(Trimmed(s))))
sanitize(s) == Truncated(Unreserved(Trimmed(Erased(s))))

(* "USERS" and the id of a user, 24 hexadecimal digits, are proper names.  *)
ASSUME ProperNames == \A s \in {Users, Id} : sanitize(s) = s

(* sanitizeToPath: the segments between slashes of either kind, cleaned,   *)
(* without the empty ones.                                                 *)
NextChar(segments, c) ==
    IF c \in {"/", "\\"} THEN Append(segments, <<>>)
    ELSE [segments EXCEPT ![Len(segments)] = Append(@, c)]
Split(s) == FoldLeft(NextChar, << <<>> >>, s)
NextSegment(segments, s) ==
    IF sanitize(s) = <<>> THEN segments ELSE Append(segments, sanitize(s))
Segments(s) == FoldLeft(NextSegment, <<>>, Split(s))
Joined(path, segment) == IF path = <<>> THEN segment ELSE path \o Slash \o segment
sanitizeToPath(s) == FoldLeft(Joined, <<>>, Segments(s))
-----------------------------------------------------------------------------
(* Folders.  An upload and a copy store a record under Target of the name  *)
(* they are given, a listing takes one slash off its end first.            *)
InBase(s) == IsPrefix(Base, s)
Target(f) ==
    CASE InBase(f) -> IF EndsIn(f, "/") THEN f ELSE f \o Slash
      [] ~InBase(f) /\ f = <<>> -> Base \o Slash
      [] ~InBase(f) /\ f # <<>> -> Base \o Slash \o f \o Slash
ListTarget(f) == Target(IF EndsIn(f, "/") THEN Front(f) ELSE f)

(* The regular expressions of the queries: a name goes into them as it is. *)
(* A dot stands for any character but the end of a line, parentheses for   *)
(* themselves nowhere; one without its partner makes the query fail.       *)
(* Every other sign - a backslash escapes what follows it, brackets are a  *)
(* class, a plus repeats, the zero character ends the pattern - makes      *)
(* another expression of the name: what that matches is left open.         *)
HasSign(s) == Range(s) \cap Signs # {}
Nesting(depth, c) ==
    CASE depth = -1 -> -1
      [] c = "(" /\ depth # -1 -> depth + 1
      [] c = ")" /\ depth # -1 -> depth - 1
      [] OTHER -> depth
Balanced(p) == FoldLeft(Nesting, 0, p) = 0
NextUngrouped(p, c) == IF c \in {"(", ")"} THEN p ELSE Append(p, c)
Ungrouped(p) == FoldLeft(NextUngrouped, <<>>, p)
MatchesFront(p, s) ==
    /\ Len(p) <= Len(s)
    /\ \A i \in DOMAIN p : p[i] = s[i] \/ (p[i] = "." /\ s[i] # "\n")
Matches(p, s) ==
    \/ HasSign(p) /\ Special(p, s)
    \/ ~HasSign(p) /\ Balanced(p) /\ MatchesFront(Ungrouped(p), s)

(* The subfolder that a listing of target shows for a record of folder g:  *)
(* the pattern is the target and at least one character that is no slash,  *)
(* the name is what follows it up to the next slash.                       *)
Beyond(target, g) == SubSeq(g, Len(target) + 1, Len(g))
MoreThanSlash == <<"[", "^", "/", "]", "+">>
IsBelow(target, g) ==
    \/ HasSign(target) /\ Special(target \o MoreThanSlash, g)
    \/ /\ ~HasSign(target) /\ Matches(target, g)
       /\ Len(g) > Len(Ungrouped(target)) /\ g[Len(Ungrouped(target)) + 1] # "/"
FirstSlash(s) == SelectInSeq(s, LAMBDA c : c = "/")
FirstName(s) == IF FirstSlash(s) = 0 THEN s ELSE SubSeq(s, 1, FirstSlash(s) - 1)
Subfolder(target, g) == FirstName(Beyond(target, g))

(* The path of a query.  Deviation: a path that is within the folder of    *)
(* the user already is not kept.                                           *)
Formatted_NotKept(p) ==
    IF IsPrefix(Users, p) THEN Base \o SubSeq(p, Len(Users) + 1, Len(p))
    ELSE Base \o Slash \o p
Formatted(p) ==
    CASE InBase(p) -> p
      [] ~InBase(p) /\ IsPrefix(Users, p) -> Base \o SubSeq(p, Len(Users) + 1, Len(p))
      [] ~InBase(p) /\ ~IsPrefix(Users, p) -> Base \o Slash \o p
FolderPattern(p) ==
    sanitizeToPath(IF EndsIn(Formatted(p), "/") THEN Formatted(p) ELSE Formatted(p) \o Slash)
-----------------------------------------------------------------------------
(* Forms.                                                                  *)
Digits == <<"0", "1", "2", "3", "4", "5", "6", "7", "8", "9", "A", "B", "C", "D", "E", "F">>
LowerDigits == <<"0", "1", "2", "3", "4", "5", "6", "7", "8", "9", "a", "b", "c", "d", "e", "f">>
HexValue == [d \in Range(Digits) \cup Range(LowerDigits) |->
                CHOOSE n \in 0 .. 15 : d \in {Digits[n + 1], LowerDigits[n + 1]}]
CharOf(n) == IF n \in Range(Code) THEN CHOOSE c \in DOMAIN Code : Code[c] = n ELSE "other"

(* The number in the two characters after a percent sign, as the stream    *)
(* extracts it: white space and a sign may precede the digit, a prefix is  *)
(* no number; <<>> when the extraction fails.                              *)
Extracted(x, y) ==
    CASE x \in DOMAIN HexValue /\ y \in DOMAIN HexValue -> <<16 * HexValue[x] + HexValue[y]>>
      [] x \in DOMAIN HexValue /\ y \notin DOMAIN HexValue ->
            IF x = "0" /\ y \in {"x", "X"} THEN <<>> ELSE <<HexValue[x]>>
      [] x \in {" ", "+"} /\ y \in DOMAIN HexValue -> <<HexValue[y]>>
      [] x = "-" /\ y \in DOMAIN HexValue -> <<(256 - HexValue[y]) % 256>>
      [] OTHER -> <<>>

(* The number of the percent sign at the front of s, <<>> when the sign is *)
(* skipped.  Deviation: it needs one character more than it takes.         *)
Escape_OffByOne(s) == IF Len(s) > 3 THEN Extracted(s[2], s[3]) ELSE <<>>
Escape(s) == IF Len(s) >= 3 THEN Extracted(s[2], s[3]) ELSE <<>>

(* url_decode: what the front of s stands for and how much of s that is,   *)
(* over the characters that a form body has.                               *)
Symbol(s) ==
    CASE s[1] = "%" -> IF Escape(s) = <<>> THEN <<>> ELSE <<CharOf(Escape(s)[1])>>
      [] s[1] = "+" -> <<" ">>
      [] s[1] \notin {"%", "+"} -> <<s[1]>>
Taken(s) == IF s[1] = "%" /\ Escape(s) # <<>> THEN 3 ELSE 1
Characters == FormChars \cup Plain \cup Range(Digits) \cup {"%", "+", "&", "=", "u", "p"}
Decoded[s \in Seq(Characters)] ==
    IF s = <<>> THEN <<>> ELSE Symbol(s) \o Decoded[SubSeq(s, Taken(s) + 1, Len(s))]
url_decode(s) == Decoded[s]

(* parse_form_body.  Of two tokens of one key the later counts.            *)
NextToken(tokens, c) ==
    IF c = "&" THEN Append(tokens, <<>>)
    ELSE [tokens EXCEPT ![Len(tokens)] = Append(@, c)]
Tokens(body) == FoldLeft(NextToken, << <<>> >>, body)
Edge(token) == SelectInSeq(token, LAMBDA c : c = "=")
KeyOf(token) == url_decode(SubSeq(token, 1, Edge(token) - 1))
ValueOf(token) == url_decode(SubSeq(token, Edge(token) + 1, Len(token)))
NextParam(params, token) ==
    IF Edge(token) = 0 THEN params
    ELSE [key \in DOMAIN params \cup {KeyOf(token)} |->
            IF key = KeyOf(token) THEN ValueOf(token) ELSE params[key]]
parse_form_body(body) == FoldLeft(NextParam, <<>>, Tokens(body))
FormField(body, key) ==
    IF key \in DOMAIN parse_form_body(body) THEN parse_form_body(body)[key] ELSE <<>>
-----------------------------------------------------------------------------
Init ==
    /\ kind \in {"path", "form"}
    /\ start \in IF kind = "path" THEN {<<>>, Users, Base} ELSE {<<>>}
    /\ text = <<>>

Type(c) ==
    /\ kind = "path" => c \in PathChars /\ Len(text) < MaxPath
    /\ kind = "form" => c \in FormChars /\ Len(text) < MaxField
    /\ text' = Append(text, c)
    /\ UNCHANGED <<kind, start>>

Next == \E c \in PathChars \cup FormChars : Type(c)
Spec == Init /\ [][Next]_vars
-----------------------------------------------------------------------------
path == start \o text
IsCut(s) == \E i \in DOMAIN Split(s) : Len(Unreserved(Trimmed(Erased(Split(s)[i])))) > MaxSegment

(* What sanitizeToPath lets through: no banned character, no empty and no  *)
(* overlong segment, none that is a reserved name or ends in a space or a  *)
(* period - the order of the steps of sanitize brings none of them back -  *)
(* and cleaning it again changes nothing.  The one exception is a segment  *)
(* that was cut to its maximal length: the cut comes last, and may end it  *)
(* in a space or a period or leave a reserved name.                        *)
SanitizedClean ==
    kind = "path" =>
        /\ \A i \in DOMAIN sanitizeToPath(path) : sanitizeToPath(path)[i] \notin Banned \ {"/"}
        /\ \A i \in DOMAIN Segments(path) : Len(Segments(path)[i]) \in 1 .. MaxSegment
        /\ ~IsCut(path) =>
              /\ \A i \in DOMAIN Segments(path) :
                    /\ ~EndsIn(Segments(path)[i], " ") /\ ~EndsIn(Segments(path)[i], ".")
                    /\ InUpper(Segments(path)[i]) \notin Reserved
              /\ sanitizeToPath(sanitizeToPath(path)) = sanitizeToPath(path)

(* A listing of a folder looks where an upload to the folder has put its   *)
(* files, unless the name ends in a slash - which the upload keeps and the *)
(* listing drops - other than the one slash that both put at the end of a  *)
(* name within the user's own folder.                                      *)
FolderListed ==
    ListTarget(path) = Target(path)
      <=> (EndsIn(path, "/") => InBase(Front(path)) /\ ~EndsIn(Front(path), "/"))

(* The names of the folders on a path: every place where a slash divides   *)
(* it into a folder and what is in it, that starts with no further slash.  *)
Cuts == {i \in DOMAIN path : path[i] = "/" /\ i > 1 /\ path[i - 1] # "/"}
Above(i) == SubSeq(path, 1, i - 1)
Rest(i) == SubSeq(path, i + 1, Len(path))
Outside(s) == IsPrefix(Users, s) /\ ~InBase(s)
HasGroup(s) == Range(s) \cap {"(", ")"} # {}

(* An upload into a folder below another makes the listing of the upper    *)
(* one show a subfolder by its name, unless the name of the upper one has  *)
(* a parenthesis: then it never does.  The listing puts that name into its *)
(* regular expression unescaped, so of a name with any other sign nothing  *)
(* is said.                                                                *)
SubfolderShown ==
    \A i \in Cuts :
        Rest(i) # <<>> /\ Rest(i)[1] # "/" /\ (InBase(path) <=> InBase(Above(i)))
          /\ ~HasSign(Above(i)) =>
        /\ IsBelow(ListTarget(Above(i)), Target(path)) <=> ~HasGroup(Above(i))
        /\ ~HasGroup(Above(i)) =>
              Subfolder(ListTarget(Above(i)), Target(path)) = FirstName(Rest(i))

(* A path names a folder to which a file was uploaded: the query finds it, *)
(* if sanitizing leaves its name alone and the regular expression it goes  *)
(* into unescaped takes every character of it but the dot for itself.      *)
FolderFound ==
    sanitizeToPath(path) = path /\ path # <<>> /\ ~Outside(path)
      /\ ~HasGroup(path) /\ ~HasSign(path) =>
    Matches(FolderPattern(path), Target(path))

(* A path of a folder, a slash and the name of a file uploaded to it: the  *)
(* query by folder and name finds the record - unless the path starts with *)
(* "USERS" and is not the user's own, where the query puts the user's      *)
(* folder in the place of the word and the upload puts it in front.        *)
FileFound ==
    \A i \in Cuts :
        Rest(i) # <<>> /\ "/" \notin Range(Rest(i)) =>
        (Target(Above(i)) \o Rest(i) = Formatted(path) <=> ~Outside(Above(i)))

(* Three handlers make the text they compare of the name they are given,   *)
(* each in its way; what one stores the others find.  Of the regular       *)
(* expressions among them that is said of names without Signs.             *)
LookupsAgree == kind = "path" => FolderListed /\ SubfolderShown /\ FolderFound /\ FileFound
-----------------------------------------------------------------------------
(* What a browser makes of a form.                                         *)
Encoded(c) ==
    CASE c = " " -> <<"+">>
      [] c \in Plain -> <<c>>
      [] c \notin Plain \cup {" "} -> <<"%", Digits[Code[c] \div 16 + 1], Digits[(Code[c] % 16) + 1]>>
NextEncoded(encoded, c) == encoded \o Encoded(c)
UrlEncoded(s) == FoldLeft(NextEncoded, <<>>, s)
Username == <<"u">>
Password == <<"p">>
Body(username, password) ==
    Username \o <<"=">> \o username \o <<"&">> \o Password \o <<"=">> \o password

(* A name and a password arrive as they were entered, whatever characters  *)
(* they have and wherever the name ends; and what is not an encoding at    *)
(* all - a percent sign at the end, or before what is no number - spoils   *)
(* no field but its own.                                                   *)
FormRoundTrip ==
    kind = "form" =>
        /\ \A i \in 0 .. Len(text) :
              LET body == Body(UrlEncoded(SubSeq(text, 1, i)),
                               UrlEncoded(SubSeq(text, i + 1, Len(text))))
              IN  /\ FormField(body, Username) = SubSeq(text, 1, i)
                  /\ FormField(body, Password) = SubSeq(text, i + 1, Len(text))
        /\ FormField(Body(text, UrlEncoded(text)), Password) = text
=============================================================================
