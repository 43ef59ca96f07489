------------------------------- MODULE Templates -------------------------------
(***************************************************************************)
(* Message templates: a body is parsed into text and placeholders once,    *)
(* and rendered with values for its variables.                             *)
(*                                                                         *)
(* A body is written character by character, in an alphabet that has what  *)
(* the parser looks for, a blank, and one letter for all that may stand in *)
(* a name.  Which of its three errors the parser reports is left out, and  *)
(* so is that it joins the text between two placeholders into one node.    *)
(* A template declares variables; the template of the model declares one.  *)
(*                                                                         *)
(* A definition that stands just before the one it resembles, and that     *)
(* nothing uses, is a mistake that one could have.                         *)
(***************************************************************************)
EXTENDS Integers, FiniteSetsExt, SequencesExt

CONSTANTS
    MaxBody,        \* bound: characters of a body
    MaxValue,       \* maximumVariableValueLength
    MaxRendered     \* maximumRenderedBodyLength

ASSUME TemplatesAssumption == {MaxBody, MaxValue, MaxRendered} \subseteq Nat

VARIABLE body

Character == {"{", "}", "\\", " ", "n"}

PlaceholderOpen  == <<"{", "{">>
PlaceholderClose == <<"}", "}">>
EscapedOpen      == <<"\\", "{", "{">>

TemplatesInit == body = <<>>

WriteCharacter(c) ==
    /\ Len(body) < MaxBody
    /\ body' = Append(body, c)

TemplatesNext == \E c \in Character : WriteCharacter(c)

TemplatesSpec == TemplatesInit /\ [][TemplatesNext]_body

-----------------------------------------------------------------------------
(* startsWith, and where else it does.                                     *)
Places(text, what) ==
    {i \in 1 .. Len(text) - Len(what) + 1 : SubSeq(text, i, i + Len(what) - 1) = what}

Trimmed(text) ==
    LET solid == {i \in DOMAIN text : text[i] # " "}
    IN  IF solid = {} THEN <<>> ELSE SubSeq(text, Min(solid), Max(solid))

IsVariableName(name) == name # <<>> /\ \A i \in DOMAIN name : name[i] = "n"

(* What parseTemplate makes of the body from i on, up to next: some text or *)
(* a variable; none where it reports an error.                             *)
Text(text, next) == [text |-> text, name |-> <<>>, next |-> next]

Placeholder(text, i) ==
    LET closes == {j \in Places(text, PlaceholderClose) : j >= i + 2}
        close  == Min(closes)
        name   == Trimmed(SubSeq(text, i + 2, close - 1))
    IN  IF closes # {} /\ IsVariableName(name)
        THEN {[text |-> <<>>, name |-> name, next |-> close + 2]}
        ELSE {}

NodeHalfEscaped(text, i) ==
    IF i \in Places(text, EscapedOpen) THEN {Text(PlaceholderOpen, i + 2)}
    ELSE IF i \notin Places(text, PlaceholderOpen) THEN {Text(<<text[i]>>, i + 1)}
    ELSE Placeholder(text, i)

Node(text, i) ==
    IF i \in Places(text, EscapedOpen) THEN {Text(PlaceholderOpen, i + 3)}
    ELSE IF i \notin Places(text, PlaceholderOpen) THEN {Text(<<text[i]>>, i + 1)}
    ELSE Placeholder(text, i)

(* The nodes of the whole, in order; no such sequence if there is an error. *)
ParseTemplate(text) ==
    LET from[i \in 1 .. Len(text) + 1] ==
            IF i > Len(text) THEN {<<>>}
            ELSE UNION {{<<node>> \o rest : rest \in from[node.next]} : node \in Node(text, i)}
    IN  from[1]

-----------------------------------------------------------------------------
(* A variable is declared with whether it must be supplied, and with a     *)
(* default or Absent; the values supplied are texts, other things or       *)
(* nothing, under declared names or not.                                   *)
Absent      == <<"absent">>
Unsupported == <<"unsupported">>

TheVariable  == <<"n">>
Other        == <<"n", "n">>
Declaration  == [required : BOOLEAN, default : {Absent, <<"n">>}]
Supplied     == {Absent, Unsupported, <<>>, <<" ">>, <<"{">>, <<"n", "n", "n">>}

ResolveVariable(declaration, value) ==
    IF value \notin {Absent, Unsupported} THEN value
    ELSE IF declaration.default # Absent THEN declaration.default
    ELSE <<>>

Refusal(code) == [error |-> code, text |-> <<>>]

RenderedNode(node, value) ==
    IF node.name = <<>> THEN node.text
    ELSE IF node.name = TheVariable THEN value
    ELSE <<>>

Contents(nodes, value) ==
    LET from[i \in 1 .. Len(nodes) + 1] ==
            IF i > Len(nodes) THEN <<>> ELSE RenderedNode(nodes[i], value) \o from[i + 1]
    IN  from[1]

(* values has what is supplied for the declared variable, and whether some  *)
(* other name has a value too.                                             *)
RenderTemplate(nodes, declaration, value, more) ==
    LET resolved == ResolveVariable(declaration, value)
        rendered == Contents(nodes, resolved)
    IN  IF more THEN Refusal("template_variable_unknown")
        ELSE IF value = Unsupported THEN Refusal("template_variable_invalid_type")
        ELSE IF value = Absent /\ declaration.required THEN Refusal("template_variable_missing")
        ELSE IF Len(resolved) > MaxValue THEN Refusal("template_variable_too_long")
        ELSE IF Len(rendered) > MaxRendered THEN Refusal("rendered_body_too_long")
        ELSE [error |-> "none", text |-> rendered]

-----------------------------------------------------------------------------
TemplatesTypeOK == Len(body) <= MaxBody /\ \A i \in DOMAIN body : body[i] \in Character

(* "\\{{" writes two braces: any text at all can be the body of a message,   *)
(* when every pair of opening braces in it, from the left, is escaped.       *)
Escape(text) ==
    LET from[i \in 1 .. Len(text) + 1] ==
            IF i > Len(text) THEN <<>>
            ELSE IF i \in Places(text, PlaceholderOpen) THEN EscapedOpen \o from[i + 2]
            ELSE <<text[i]>> \o from[i + 1]
    IN  from[1]

AnyTextCanBeWritten ==
    \E nodes \in ParseTemplate(Escape(body)) : Contents(nodes, Absent) = body

(* "A message containing a literal {{customerName}} must never be sent":     *)
(* where nobody wrote an escape, and no value has a brace, neither has what  *)
(* is rendered two of them.                                                 *)
NoPlaceholderLeft ==
    Places(body, EscapedOpen) = {} =>
        \A nodes \in ParseTemplate(body), declaration \in Declaration,
           value \in Supplied \ {<<"{">>} :
            Places(RenderTemplate(nodes, declaration, value, FALSE).text, PlaceholderOpen) = {}

TemplatesSayWhatIsMeant == AnyTextCanBeWritten /\ NoPlaceholderLeft
=============================================================================
