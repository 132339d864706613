\* Two cards that expose a connector of one and the same name.
SPECIFICATION Spec
CONSTANTS
  None = None
  Err = Err
  e1 = e1
  e2 = e2
  e3 = e3
  t1 = t1
  t2 = t2
  s1 = s1
  s2 = s2
  s3 = s3
  m1 = m1
  m2 = m2
  UsbId <- UsbIds
  TbId = {t1, t2}
  SdId = {s1, s2, s3}
  PciId = {e1, e2, e3}
  Monitor = {m1, m2}
  Connector = {e1, e2, e3}
  Entry = {e1, e2, e3}
  Part = {e3}
  NameOf <- SharedName
  Walked = {"display"}
  Content <- Contents
  HexId = {"v1", "p1", "p2"}
  Ignored = {e3}
  MaxEvents = 2
INVARIANTS
  StillIsQuiet
