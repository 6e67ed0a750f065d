----------------------------- MODULE MCLibrary ------------------------------
(***************************************************************************)
(* An instance of Library: a site whose page links to an icon of its own   *)
(* and to one that is also at a well-known path; and pages with a tag of   *)
(* two attributes in either order, alone, before another tag or after one, *)
(* or that end within a tag.                                               *)
(***************************************************************************)
EXTENDS Library

MCStandardIcons == [url \in Urls |-> {"favicon", "touch"}]
MCLinkedIcons == [url \in Urls |-> {"touch", "linked"}]

AttrValues == {<<>>, <<"a">>, <<"a", " ", "b">>, <<"a", "=", "b">>, <<"<", "link", ">">>, <<"a", "'">>}

Spacings == {<<"=">>, <<" ", "=">>, <<"=", " ", " ">>}

Bare(value) == value # <<>> /\ {value[i] : i \in DOMAIN value} \cap ({" ", "=", "<", ">"} \union Quotes) = {}

Attrs(name, spacings, values) ==
    {attr \in [name : {name}, equals : spacings,
               quote : {<<>>, <<"\"">>, <<"'">>}, value : values] :
        IF attr.quote = <<>> THEN Bare(attr.value) ELSE ~Contains(attr.value, attr.quote[1])}

Tag(type, attrs, end) == [type |-> type, attrs |-> attrs, end |-> end]

Tags ==
    {Tag(type, IF swap THEN <<url, rel>> ELSE <<rel, url>>, end) :
        type \in TagNames, swap \in BOOLEAN, end \in {<<">">>, <<" ", "/", ">", " ">>},
        rel \in Attrs("rel", Spacings, AttrValues), url \in Attrs("href", {<<"=">>}, {<<"b">>, <<"b", ">", " ">>})}

Other ==
    Tag("meta", <<[name |-> "property", equals |-> <<"=">>, quote |-> <<"\"">>, value |-> <<"c">>],
                  [name |-> "content", equals |-> <<"=">>, quote |-> <<>>, value |-> <<"d">>]>>, <<">">>)

CutOff == {Tag("link", attrs, <<>>) : attrs \in {<<>>} \union {<<rel>> : rel \in Attrs("rel", Spacings, AttrValues)}}

MCPages ==
    UNION {{<<tag>>, <<tag, Other>>, <<Other, tag>>} : tag \in Tags}
        \union {<<Other, tag>> : tag \in CutOff}
=============================================================================
