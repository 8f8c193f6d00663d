---------------------------- MODULE MCBlockRelay ----------------------------
(***************************************************************************)
(* Trees for model checking: leaves with and without something in them,    *)
(* broken blocks, each wrapper and list of at most two of these, and such  *)
(* trees inside one more.                                                  *)
(***************************************************************************)
EXTENDS BlockRelay

Small ==
    {Block("text", <<"hello">>, <<>>), Block("timestamp", <<>>, <<>>), Block("unknown", <<>>, <<>>)}

Leaf ==
    Small \cup {Block("text", <<>>, <<>>), Block("inline_code", <<"code">>, <<>>),
                Block("fenced_code", <<"code">>, <<>>), Block("timestamp", <<"1700000000">>, <<>>)}

Over(trees) ==
    {Block(kind, IF kind = "link" THEN <<"url">> ELSE <<>>, inner) : kind \in Wrappers, inner \in {<<>>} \cup {<<b>> : b \in trees}}
    \cup {Block(kind, <<>>, inner) : kind \in Lists,
             inner \in {<<>>} \cup {<<b>> : b \in trees} \cup (trees \X trees)}

Some == {Block("link", <<"url">>, <<b>>) : b \in Small}
        \cup {Block("bold", <<>>, <<b>>) : b \in Small}
        \cup {Block("list", <<>>, <<b, c>>) : b \in Small, c \in Small}

MCTrees == Leaf \cup Over(Leaf) \cup Over(Some)

MCWord == {"hello", "code", "1700000000", "url", "stale", "0", ", ", " (", ")"}

MCTexts == {<<>>, <<"stale">>}

\* No tags; a tag of the senders' own beside one under the server's key.
MCTaggings == {<<>>, "origin" :> "irc" @@ OriginalFormat :> "text"}
=============================================================================
