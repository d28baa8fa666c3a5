------------------------------- MODULE MCNames -------------------------------
(* Instance of Names for TLC.                                                *)
EXTENDS Names

\* Domains with a star, with up to three dots before and two behind, a top level
\* domain, an address, an internationalised top label, and a dot alone.
MCTexts ==
    {<<"com", "">>, <<"a", "com">>, <<"", "", "a", "com", "">>, <<"*", "a", "com">>,
     <<"", "*", "a", "com">>, <<"b", "a", "com">>, <<"*", "", "b", "com", "">>,
     <<"a", "", "com">>, <<"a", "xn--p1ai">>, <<"", "", "", "a", "com">>,
     <<"a", "com", "", "">>, <<"", "">>}

\* Names as they come from the wire, the root and a star among them.
MCQueries ==
    {<<"", "">>, <<"com", "">>, <<"a", "com", "">>, <<"b", "com", "">>, <<"*", "a", "com", "">>,
     <<"c", "b", "a", "com", "">>, <<"a", "xn--p1ai", "">>}
=============================================================================
