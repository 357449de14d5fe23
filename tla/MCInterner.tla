------------------------------- MODULE MCInterner -------------------------------
EXTENDS Interner

\* The empty string, strings of one byte (one is a terminator itself), one that
\* fills a block of four exactly, and two that need a block of their own.
MCStrings ==
  { <<>>, <<0>>, <<1>>, <<1, 0, 1>>, <<1, 2, 1, 2>>, <<2, 2, 2, 2, 2>> }
=============================================================================
