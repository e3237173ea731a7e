\* A page that scrolls one screen without traffic and two with it, loaded three
\* times: it can be left, and left again before React has mounted it.
SPECIFICATION Spec
CONSTANTS
  Base = 1
  Tall = 2
  MaxReloads = 2
  None = None
INVARIANTS
  TypeOK
  RestoresPosition
  SavesPosition
  LibraryGoesWithPage
PROPERTIES
  OnlyUserScrolls
  PageIsShown
\* After the last load nothing need happen on a page that has crashed.
CHECK_DEADLOCK FALSE
