\* Blocks of six bytes, two of them a header: items that leave one byte, leave
\* room for just a header, fill a block, or take two or three blocks.
CONSTANTS
  Block = 6
  Header = 2
  Lengths = {1, 2, 3, 5, 9}
  Blanks = {3, 4}
  MaxSize = 19
  MaxFaults = 2
SPECIFICATION FormatSpec
INVARIANTS ReadBack NoneLost SeekLands Mirror
CHECK_DEADLOCK FALSE
