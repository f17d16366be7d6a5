------------------------------ MODULE MCNames -------------------------------
(* The characters at the ends of the ranges of utf_traits, as Unicode spells *)
(* them, and units that spell none.                                          *)
EXTENDS Names

Char(c, u8, u16) == [code |-> c, utf8 |-> u8, utf16 |-> u16, cut |-> FALSE]
MCCharacters ==
    {Char(37, <<37>>, <<37>>), Char(63, <<63>>, <<63>>), Char(70, <<70>>, <<70>>),
     Char(128, <<194, 128>>, <<128>>), Char(2047, <<223, 191>>, <<2047>>),
     Char(2048, <<224, 160, 128>>, <<2048>>), Char(55295, <<237, 159, 191>>, <<55295>>),
     Char(57344, <<238, 128, 128>>, <<57344>>),
     Char(65536, <<240, 144, 128, 128>>, <<55296, 56320>>),
     Char(1114111, <<244, 143, 191, 191>>, <<56319, 57343>>)}

Stray(u8, u16, cut) == [utf8 |-> u8, utf16 |-> u16, cut |-> cut]
MCStrays ==
    {Stray(<<195>>, <<55296>>, TRUE), Stray(<<226, 130>>, <<56319>>, TRUE),
     Stray(<<191>>, <<57343>>, FALSE), Stray(<<192, 128>>, <<56321>>, FALSE),
     Stray(<<224, 159, 191>>, <<56322>>, FALSE), Stray(<<237, 160, 128>>, <<56323>>, FALSE),
     Stray(<<244, 144, 128, 128>>, <<56324>>, FALSE), Stray(<<245>>, <<56325>>, FALSE)}
=============================================================================
