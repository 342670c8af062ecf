\* Two recipes of which one is gated; packs of up to three rows.
CONSTANTS
  Module = {countries, admin1}
  Gated = {countries}
  MaxRows = 3
  Tolerance = 1
  MaxStarts = 3
SPECIFICATION PublishSpec
INVARIANT PublishedIsWhole
PROPERTY OverwritesAreGated
