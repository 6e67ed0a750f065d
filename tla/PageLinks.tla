----------------------------- MODULE PageLinks ------------------------------
(***************************************************************************)
(* PageLinkFetcher (lib/siteinfo/service.ts): the <link> and <meta> tags   *)
(* of a page are found, split into tokens and read as links.  It is no     *)
(* HTML parser: it looks for the next tag in what is left of the page, so  *)
(* a token that ends too early or too late takes the tags that follow with *)
(* it.                                                                     *)
(*                                                                         *)
(* A character is a string; the names of tags and attributes are           *)
(* characters of their own.                                                *)
(***************************************************************************)
EXTENDS Integers, FiniteSets, SequencesExt, TLC

CONSTANT
    Pages    \* the pages: sequences of tags as their authors wrote them

VARIABLES
    page,      \* the tags of the page
    content,   \* what is left of its text
    links,     \* the links that were found
    turns      \* how often the loop was run

linkVars == <<page, content, links, turns>>

TagNames == {"link", "meta"}
Quotes == {"\"", "'"}
propAttrs == <<"rel", "property", "name", "itemprop">>
urlAttrs == <<"href", "content">>

-----------------------------------------------------------------------------
(* Pages.  A tag has attributes, each with the text between its name and   *)
(* its value and the quotes of the value, if any; a quote in a value is    *)
(* escaped.                                                                *)
Escaped(attr) ==
    FlattenSeq([i \in DOMAIN attr.value |->
                  IF <<attr.value[i]>> = attr.quote THEN <<"\\", attr.value[i]>> ELSE <<attr.value[i]>>])

AttrText(attr) == <<" ", attr.name>> \o attr.equals \o attr.quote \o Escaped(attr) \o attr.quote

TagText(tag) ==
    <<"<", tag.type>> \o FlattenSeq([i \in DOMAIN tag.attrs |-> AttrText(tag.attrs[i])]) \o tag.end

Text(tags) == FlattenSeq([i \in DOMAIN tags |-> TagText(tags[i])])

-----------------------------------------------------------------------------
(* tokenizeTag: the tokens of a tag and the length of its text.            *)
Blank(text) == \A i \in DOMAIN text : text[i] = " "

Scanner == [tokens |-> <<>>, pending |-> <<>>, read |-> 0, end |-> 0,
            depth |-> 0, quote |-> "", prev |-> "", done |-> FALSE]

(* The local function next: what was read since the last token is one, too.*)
Cut(s) ==
    IF Blank(s.pending)
    THEN [s EXCEPT !.pending = <<>>]
    ELSE [s EXCEPT !.pending = <<>>, !.tokens = Append(@, s.pending), !.end = s.read]

(* Faulty variant: an equals sign ends a token, but does not begin one.    *)
EndsTokenNotAfterEquals(prev, ch) ==
    IF ch = " " THEN prev # " "
    ELSE ch \in {"<", ">", "="} \union Quotes \/ prev \in {" ", "<"}

(* Whether a token ends before a character outside quotes.                 *)
EndsToken(prev, ch) ==
    IF ch = " " THEN prev # " "
    ELSE ch \in {"<", ">", "="} \union Quotes \/ prev \in {" ", "<", "="}

Scan(s, ch) ==
    LET opens == s.quote = "" /\ ch \in Quotes
        closes == s.quote # "" /\ ch = s.quote /\ s.prev # "\\"
        depth == s.depth + (IF s.quote # "" THEN 0 ELSE IF ch = "<" THEN 1 ELSE IF ch = ">" THEN -1 ELSE 0)
        ends == s.quote = "" /\ ch = ">" /\ depth = 0
        before == IF s.quote = "" /\ EndsToken(s.prev, ch) THEN Cut(s) ELSE s
        after == [before EXCEPT !.pending = Append(@, ch), !.read = @ + 1, !.depth = depth, !.prev = ch,
                                !.quote = IF opens THEN ch ELSE IF closes THEN "" ELSE @, !.done = ends]
    IN IF s.done THEN s ELSE IF closes \/ ends THEN Cut(after) ELSE after

Tokenized(text) == FoldLeft(Scan, Scanner, text)

(* unquote: the loop steps over an escaped character once too often.       *)
Unquote(text) ==
    LET quote == text[1]
        rest[i \in 2 .. Len(text) + 2] ==
            IF i > Len(text) \/ text[i] = quote THEN <<>>
            ELSE IF text[i] = "\\" THEN <<text[i + 1]>> \o rest[i + 3]
            ELSE <<text[i]>> \o rest[i + 1]
    IN IF quote \in Quotes THEN rest[2] ELSE text

(* parseTag: the name of a tag and the values of its attributes.           *)
NoTag == [type |-> <<>>, attrs |-> <<>>, name |-> <<>>, inVal |-> FALSE]

ReadToken(tag, token) ==
    LET text == Unquote(token) IN
    CASE text \in {<<"<">>, <<">">>} -> tag
      [] tag.type = <<>> -> [tag EXCEPT !.type = text]
      [] text = <<"=">> -> [tag EXCEPT !.inVal = TRUE]
      [] tag.inVal -> [tag EXCEPT !.attrs = (tag.name :> text) @@ @, !.inVal = FALSE]
      [] OTHER -> [tag EXCEPT !.name = text]

ParseTag(tokens) == FoldLeft(ReadToken, NoTag, tokens)
-----------------------------------------------------------------------------
(* extractLinks: the first of the relations that a tag has, with the first *)
(* of its addresses.                                                       *)
FirstValue(attrs, names) ==
    LET present == SelectSeq(names, LAMBDA n : <<n>> \in DOMAIN attrs /\ attrs[<<n>>] # <<>>)
    IN IF present = <<>> THEN <<>> ELSE attrs[<<Head(present)>>]

LinksOf(type, attrs) ==
    LET rel == FirstValue(attrs, propAttrs)
        url == FirstValue(attrs, urlAttrs)
    IN IF rel = <<>> \/ url = <<>> THEN <<>> ELSE <<[type |-> type, rel |-> rel, url |-> url]>>

StartsTag(text, i) == text[i] = "<" /\ i < Len(text) /\ text[i + 1] \in TagNames

HasTag(text) == \E i \in DOMAIN text : StartsTag(text, i)

FromTag(text) ==
    SubSeq(text, CHOOSE i \in DOMAIN text :
                    StartsTag(text, i) /\ \A j \in 1 .. i - 1 : ~StartsTag(text, j), Len(text))

LinksInit ==
    /\ page \in Pages
    /\ content = Text(page)
    /\ links = <<>>
    /\ turns = 0

(* One turn of the loop of extractLinks.                                   *)
ExtractLink ==
    /\ HasTag(content)
    /\ LET text == FromTag(content)
           scanned == Tokenized(text)
           tag == ParseTag(scanned.tokens)
       IN /\ content' = SubSeq(text, scanned.end + 1, Len(text))
          /\ links' = links \o LinksOf(IF tag.type = <<"link">> THEN "link" ELSE "meta", tag.attrs)
    /\ turns' = turns + 1
    /\ UNCHANGED page

LinksNext == ExtractLink

LinksSpec == LinksInit /\ [][LinksNext]_linkVars

-----------------------------------------------------------------------------
(* The links of a page as HTML has them.                                   *)
Written(tag) ==
    [name \in {<<tag.attrs[i].name>> : i \in DOMAIN tag.attrs} |->
        (CHOOSE i \in DOMAIN tag.attrs : <<tag.attrs[i].name>> = name)]

LinksWritten(tags) ==
    FlattenSeq([i \in DOMAIN tags |->
        LET tag == tags[i]
            at == Written(tag)
        IN LinksOf(tag.type, [name \in DOMAIN at |-> tag.attrs[at[name]].value])])

(* The links of a page are found as they are written, whatever the quotes  *)
(* and the spaces around a value and whatever tags there are around it, as *)
(* long as no quote is escaped: unquote drops the character that follows   *)
(* it.  And each turn of the loop gets past a tag, also if the page ends   *)
(* within it: one that consumed nothing would be repeated for ever         *)
(* (service.ts 423-608).                                                   *)
LinksAreFound ==
    /\ turns <= Cardinality({i \in DOMAIN Text(page) : StartsTag(Text(page), i)})
    /\ ~HasTag(content) => links = LinksWritten(page)
=============================================================================
