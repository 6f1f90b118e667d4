----------------------------- MODULE MCSourceText -----------------------------
(***************************************************************************)
(* The phrases of the runs of SourceText.                                  *)
(***************************************************************************)
EXTENDS SourceText

\* Phrases that open, close, use and break the constructs of a function.
ConstructPhrases ==
    { <<Token("TK_VAL"), Id("x"), Token("TK_EQ"), NumberToken(1), Token("TK_SEMI")>>,
      <<Token("TK_VAL"), Id("y"), Token("TK_EQ"), Id("f"), Token("TK_POPEN"), CharToken(7),
        Token("TK_PCLOSE")>>,
      <<Token("TK_POUND"), Id("f"), Token("TK_POPEN"), Token("TK_PCLOSE"), Token("TK_COPEN")>>,
      <<Id("x"), Token("TK_PLUS_PLUS"), Token("TK_SEMI")>>,
      <<Token("TK_RETURN"), Id("x"), Token("TK_AND"), Id("f"), Token("TK_OR"), Id("x"),
        Token("TK_SEMI")>>,
      <<Token("TK_IF"), Token("TK_POPEN"), Id("x"), Token("TK_PCLOSE"), Token("TK_COPEN")>>,
      <<Token("TK_CCLOSE"), Token("TK_ELSE"), Token("TK_COPEN")>>,
      <<Token("TK_DO"), Token("TK_COPEN")>>,
      <<Token("TK_CCLOSE"), Token("TK_WHILE"), Token("TK_POPEN"), Id("x"), Token("TK_PCLOSE"),
        Token("TK_SEMI")>>,
      <<Token("TK_FOR"), Token("TK_POPEN"), Token("TK_SEMI"), Id("x"), Token("TK_SEMI"),
        Id("x"), Token("TK_MINUS_MINUS"), Token("TK_PCLOSE"), Token("TK_COPEN")>>,
      <<Token("TK_CCLOSE")>>, <<Erroneous, Token("TK_PCLOSE")>> }

\* if x {, where the parentheses are missing.
ForgottenPhrases == {<<Token("TK_IF")>>, <<Id("x")>>, <<Token("TK_COPEN")>>}
==============================================================================
