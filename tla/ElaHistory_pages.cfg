SPECIFICATION Spec
CONSTANTS
  k1 = k1
  Tasks = {k1}
  PageSize = 1
  MaxTx = 3
  MaxPosts = 1
  MaxUpsets = 2
INVARIANTS TypeOK 
PROPERTY MinedStaysMined
