------------------------------ MODULE MCExtraction ------------------------------
EXTENDS Extraction, TLC
CONSTANTS ta, tb

MCThreads == {ta, tb}
MCMessages == {"short", "long"}
MCAwkward == {"long"}
MCMatches ==
  [m \in MCMessages |->
     [p \in {"works_as", "lives_in", "likes", "owns", "speaks"} |->
        IF m = "short" THEN <<>>
        ELSE CASE p = "likes" -> <<"Tea", "dogs", "tea">>
               [] p = "owns"  -> <<"Dogs">>
               [] OTHER       -> <<>>]]
MCFold ==
  [s \in {"Tea", "tea", "Dogs", "dogs", "Likes", "likes", "user", "Bob", "bob", " ", ""} |->
     CASE s = "Tea" -> "tea" [] s = "Dogs" -> "dogs" [] s = "Likes" -> "likes"
       [] s = "Bob" -> "bob" [] s = " " -> "" [] OTHER -> s]

Item(s, p, o) == [subject |-> s, predicate |-> p, object |-> o]
One == <<Item(Missing, "Likes", "Tea")>>
Many == <<Item("Bob", "likes", "Dogs"), Item("user", Missing, "tea"),
          Item("user", "likes", " "), Item(" ", "Likes", "tea")>>

Piece(kind, items) == [kind |-> kind, items |-> items]
Fence == Piece("fence", Missing)
FenceJson == Piece("fenceJson", Missing)
Prose == Piece("prose", Missing)
Braces == Piece("braces", Missing)
Object(items) == Piece("object", items)
List == Piece("list", One)

Texts == {
  <<Prose>>, <<Object(Missing)>>, <<List>>, <<Prose, List>>,
  <<FenceJson, Object(Many), Fence>>, <<Fence, Object(One), Fence, Fence>>,
  <<FenceJson, Object(One), Fence, Prose>>,
  <<Prose, FenceJson, Object(Many), Fence>>,
  <<Braces, Object(One)>>, <<Object(One), Object(Many)>> }

Text(pieces) == [isText |-> TRUE, pieces |-> pieces]
Other == [isText |-> FALSE, pieces |-> <<>>]
Usage(in, out) == [tokensIn |-> in, tokensOut |-> out]
Ok(usage, parts) == [status |-> "ok", usage |-> usage, parts |-> parts]

MCReplies ==
  "short" :> {Ok(Missing, <<Text(text)>>) : text \in Texts}
  @@ "long" :> {[status |-> "error", usage |-> Missing, parts |-> <<>>],
                Ok(Usage(2, Missing), <<>>),
                Ok(Usage(2, 1), <<Other, Text(<<Object(One)>>)>>),
                Ok(Usage(1, 1), <<Text(<<Prose, FenceJson>>), Other,
                                  Text(<<Object(Many), Fence>>)>>)}
=============================================================================
