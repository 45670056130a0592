CONSTANTS
  Nothing = Nothing
  b1 = b1
  ours = ours
  theirs = theirs
  d1 = d1
  d2 = d2
  ar = ar
  en = en
  Bookings = {b1}
  AgencyOf <- Owner
  AllAgencies = {ours, theirs}
  Locales = {ar, en}
  Primary = ar
  Calls = {d1, d2}
  MaxEdits = 0
  MaxFaults = 0
SPECIFICATION DocumentsSpec
INVARIANT CancelledHaveNoVoucher
CHECK_DEADLOCK FALSE
