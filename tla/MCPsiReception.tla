--------------------------- MODULE MCPsiReception ---------------------------
(* Instances of PsiReception for TLC. *)
EXTENDS PsiReception

ShortPat == SectionHead(0, PSI_TABLE_ID_PAT, 1)
LongPat  == SectionHead(0, PSI_TABLE_ID_PAT, 4)
ShortPmt == SectionHead(0, PSI_TABLE_ID_PMT, 1)
LongPmt  == SectionHead(0, PSI_TABLE_ID_PMT, 4)
Foreign  == SectionHead(0, OtherTable, 2)

Tables == {ShortPat, LongPat, ShortPmt, LongPmt}
Mixed  == {ShortPmt, LongPmt, Foreign}

PlainFlags == {Plain}
=============================================================================
