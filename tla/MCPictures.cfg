\* Documents of two characters and three pictures, one visit to the picture view.
CONSTANTS
  MaxText = 2
  MaxPicture = 3
  MaxThumbnail = 1
SPECIFICATION FairSpec
INVARIANTS PicturesSafe NeverTooEarly
PROPERTY EveryPictureSettles
\* The program may crash.
CHECK_DEADLOCK FALSE
