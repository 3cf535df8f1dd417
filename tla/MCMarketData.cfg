SPECIFICATION Spec
CONSTANTS
  stock = stock  option = option  future = future  dated = dated  x = x  None = None
  Specs = {stock, option, future, dated}
  Symbol <- OneSymbol
  Rolls = {future}
  Quoted = {stock, option, future}
  Streams = {x}
  StreamSpec <- OnDated
  MaxRolls = 1
INVARIANTS TypeOK NothingLeftOpen StreamsStayOpen RightInstrument
PROPERTY CallsEnd
