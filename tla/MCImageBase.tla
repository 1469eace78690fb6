---------------------------- MODULE MCImageBase ----------------------------
EXTENDS Naturals, ImageBase

MCImageBases ==
  { Chars("0x1000"), Chars("0x401000"), Chars("1000"), Chars("401000") }

MCBinaryBases == {0, 4096, 4194304}
=============================================================================
