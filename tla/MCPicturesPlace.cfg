\* Two pictures.
CONSTANTS
  MaxText = 2
  MaxPicture = 2
  MaxThumbnail = 0
SPECIFICATION Spec
INVARIANT PicturesInTheirPlace
CHECK_DEADLOCK FALSE
