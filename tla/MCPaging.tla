------------------------------- MODULE MCPaging -------------------------------
EXTENDS Paging

\* 0 and 1 share all of their tables, 6 shares the upper two with them.
MCPages == {0, 1, 6}
MCFrames == {{20}, {53}, {12, 52}}
MCTableFrames == << {13}, {14}, {13, 14}, {15}, {13, 15} >>
MCLeafFlags == {{PRESENT}}
MCParentFlags == {{PRESENT, WRITABLE}, {PRESENT, APP_PARENT_FROZEN}}
MCMasks == {{PRESENT}}
MCOpaque == {{}, {{15}}}
==============================================================================
