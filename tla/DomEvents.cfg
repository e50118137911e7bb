SPECIFICATION DomSpec
CONSTANTS
  body = body  card = card  range = range  text = text
  Nodes = {body, card, range, text}
  Body = body
  Parent <- MCParent
  Text = {text}
  Ranges = {range}
  Draggables = {card}
  TabOrder <- MCTabOrder
  NoNode = NoNode
  MaxInputs = 5
  MaxActs = 1
INVARIANTS
    NodesAreSound
    PointerProtocol
    FocusProtocol
CHECK_DEADLOCK FALSE
