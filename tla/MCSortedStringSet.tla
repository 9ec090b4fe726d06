-------------------------- MODULE MCSortedStringSet --------------------------
EXTENDS SortedStringSet

\* Five strings: a bisection of up to three probes and two growths of the
\* array from an initial capacity of two.
MCStrings == 1..5
==============================================================================
