---------------------------- MODULE MCDocBuilder ----------------------------
EXTENDS DocBuilder

MCSpacings == {Break, Hardspace, Space, Hardline, Softspace}
MCTrivia == {<<"LineComment">>, <<"LanguageAnnotation">>, <<"EmptyLine">>}
MCStrings == {<<FALSE, TRUE, FALSE, FALSE, TRUE, FALSE>>}
MCGroups == {"Regular", "Transparent"}
=============================================================================
